---- MODULE Spec2Model ----
(***************************************************************************)
(* Model of ydisk_video_downloader.py: the tree.md manifest (written by    *)
(* create_structure_tree, updated by mark_file_partially_downloaded and    *)
(* mark_file_downloaded, read by read_files_from_tree and                  *)
(* is_file_downloaded) and the transfer pipeline of __main__ and           *)
(* parse_folder_contents that drives download_video and                    *)
(* upload_to_yandex_disk.                                                  *)
(*                                                                         *)
(* Representation.  A Python string that is used as a path is modelled by  *)
(* the sequence of its '/'-separated parts, i.e. by s.split('/'):          *)
(*     ""          <-> << "" >>                                            *)
(*     "/r.mp4"    <-> << "", "r.mp4" >>                                   *)
(*     "A/a.mp4"   <-> << "A", "a.mp4" >>                                  *)
(* so f"{x}/{y}" is sequence concatenation and lstrip('/') drops leading   *)
(* empty parts.  The manifest file is modelled by its lines: the lines of  *)
(* the fenced tree block and the lines of the flat "## Файлы" section; the *)
(* heading and legend lines are constant text.                             *)
(***************************************************************************)
EXTENDS Integers, Sequences, FiniteSets, TLC

\* ------------------------------------------------------------------------
\* Program constants
\* ------------------------------------------------------------------------
EXIT_SUCCESS == 0
EXIT_INVALID_ARGS == 1
EXIT_ERROR == 2

\* ------------------------------------------------------------------------
\* Bounds of the model
\* ------------------------------------------------------------------------
\* longest file list handed to create_structure_tree in SpecManifest
MaxListLen == 2
\* number of consecutive program runs explored in Spec
MaxRuns == 2
\* videos one folder of the share holds (SpecOrder)
MaxFolderFiles == 2
\* elements one page of the share renders (SpecFolders)
MaxElems == 2
\* characters of a raw name (SpecSanitize)
MaxNameLen == 3
\* folder links the pages of the share render in total (SpecDiscovery)
MaxLinks == 4
\* nesting of the calls of parse_public_folder explored (SpecDiscovery): the
\* root call and one nested call for each of the three references
MaxDepth == 4

\* ------------------------------------------------------------------------
\* The remote share explored by the model (an input, fixed over all runs:
\* "an unchanged remote tree").  Two folders with one video each, of the same
\* base name, the video of the first folder rendered twice by its page, and
\* one video at the root.
\* ------------------------------------------------------------------------
RootUrl == "u0"

Listing(url) ==
  CASE url = "u0" -> << "A", "B", "r.mp4" >>
    [] url = "uA" -> << "a.mp4", "a.mp4" >>
    [] url = "uB" -> << "a.mp4" >>
    [] OTHER      -> << >>

\* href of a folder entry of the root listing
FolderHref(name) == CASE name = "A" -> "uA" [] name = "B" -> "uB" [] OTHER -> "none"

\* whether one of the href strategies of parse_folder_contents yields a
\* download locator for a video entry: it does for every video of this share
HrefResolves(name) == name \in { "a.mp4", "r.mp4", "c.MP4" }

\* name.lower() on the names of the model alphabet
Lower(name) == IF name = "c.MP4" THEN "c.mp4" ELSE name

\* names that end, as they are written, with one of VIDEO_EXTENSIONS
VideoNames == { "a.mp4", "r.mp4", "c.mp4" }

\* any(name.endswith(ext) for ext in VIDEO_EXTENSIONS)
HasVideoExt(name) == name \in VideoNames

\* any(name.lower().endswith(ext) for ext in VIDEO_EXTENSIONS)
is_video(name) == HasVideoExt(Lower(name))

\* Python's ordering of the names of the model alphabet (code point order),
\* used by sorted()
NameOrder == << "", "A", "B", "a.mp4", "c.MP4", "r.mp4" >>

NameRank(n) == CHOOSE i \in 1..Len(NameOrder) : NameOrder[i] = n

\* ------------------------------------------------------------------------
\* String helpers on the split representation
\* ------------------------------------------------------------------------
RECURSIVE Lstrip(_)
\* s.lstrip('/')
Lstrip(p) ==
  IF Len(p) > 1 /\ p[1] = "" THEN Lstrip(Tail(p)) ELSE p

\* os.path.basename(s)
Basename(p) == p[Len(p)]

\* [part for part in s.split('/') if part.strip()]
NonEmptyParts(p) == SelectSeq(p, LAMBDA x : x # "")

\* s.startswith(folder + '/') or s == folder, for a one-part folder name
StartsWithFolder(p, folder) ==
  \/ (Len(p) > 1 /\ p[1] = folder)
  \/ p = << folder >>

\* string comparison a < b of two paths whose parts are in NameOrder
RECURSIVE PathLess(_, _)
PathLess(a, b) ==
  IF a = << >> THEN b # << >>
  ELSE IF b = << >> THEN FALSE
  ELSE IF a[1] = b[1] THEN PathLess(Tail(a), Tail(b))
  ELSE NameRank(a[1]) < NameRank(b[1])

RECURSIVE InsertSorted(_, _)
InsertSorted(s, x) ==
  IF s = << >> THEN << x >>
  ELSE IF PathLess(x, s[1]) THEN << x >> \o s
  ELSE << s[1] >> \o InsertSorted(Tail(s), x)

RECURSIVE SortPaths(_)
\* sorted(video_files, key=relative_path): a stable insertion sort
SortPaths(s) ==
  IF s = << >> THEN << >>
  ELSE InsertSorted(SortPaths(SubSeq(s, 1, Len(s) - 1)), s[Len(s)])

Range(s) == { s[i] : i \in 1..Len(s) }

\* ------------------------------------------------------------------------
\* The manifest file tree.md
\* ------------------------------------------------------------------------
\* tree line  : [depth, lead, name, folder, mark]   mark: "v" (the check mark),
\*              "p", " " for files, "-" for folder lines; lead is the number
\*              of leading blanks of the line divided by 4
\* flat line  : [mark, path]                        mark: "x", "p", " "
\* kind       : "document" for a file the program wrote (in full or in part),
\*              "undecodable" for bytes that open(..., encoding='utf-8').read()
\*              rejects, "junk" for text none of whose lines is a line the
\*              program writes
NoFile == [exists |-> FALSE, kind |-> "document", tree |-> << >>, flat |-> << >>]

\* f.read() raises inside the try block
ReadRaises(m) == m.exists /\ m.kind = "undecodable"

\* paths of the file nodes and of the folder nodes of tree_structure
TreeFiles(video_files) == { v : v \in Range(video_files) }

Prefixes(p) == { SubSeq(p, 1, k) : k \in 1..Len(p) }

ProperPrefixes(p) == { SubSeq(p, 1, k) : k \in 1..(Len(p) - 1) }

TreeFolders(video_files, folder_info) ==
  ( (UNION { Prefixes(f) : f \in Range(folder_info) })
    \cup (UNION { ProperPrefixes(v) : v \in Range(video_files) }) )
  \ TreeFiles(video_files)

RECURSIVE MarkPath(_, _)
\* the current_path that mark_downloaded builds for a node:
\* f"{path}/{key}" if path else key
MarkPath(acc, parts) ==
  IF parts = << >> THEN acc
  ELSE MarkPath(IF acc = << "" >> THEN << parts[1] >> ELSE acc \o << parts[1] >>,
                Tail(parts))

\* one line of the existing file as the status scan of create_structure_tree
\* sees it: only a flat line carries text between backticks, so only a flat
\* line can add to downloaded_files / partially_downloaded_files
DownloadedFiles(m) ==
  { m.flat[i].path : i \in { j \in 1..Len(m.flat) : m.flat[j].mark = "x" } }

PartiallyDownloadedFiles(m) ==
  { m.flat[i].path : i \in { j \in 1..Len(m.flat) : m.flat[j].mark = "p" } }

\* status of a file node of the tree block
TreeNodeMark(path, downloaded, partially) ==
  IF MarkPath(<< "" >>, path) \in downloaded THEN "v"
  ELSE IF MarkPath(<< "" >>, path) \in partially THEN "p"
  ELSE " "

FlatMark_NoPartial(rel, downloaded, partially) ==
  IF Lstrip(rel) \in downloaded THEN "x" ELSE " "

\* status character of a line of the flat section
FlatMark(rel, downloaded, partially) ==
  IF Lstrip(rel) \in downloaded THEN "x"
  ELSE IF Lstrip(rel) \in partially THEN "p"
  ELSE " "

\* sorted(node.items()): the child names of a node, in order
ChildNames(files, folders, parent) ==
  SelectSeq(NameOrder, LAMBDA n : (parent \o << n >>) \in (files \cup folders))

RECURSIVE BuildTreeMarkdown(_, _, _, _, _, _, _)
RECURSIVE BuildKids(_, _, _, _, _, _, _, _)
\* build_tree_markdown: the lines of the children of parent
BuildTreeMarkdown(files, folders, parent, depth, lead, downloaded, partially) ==
  BuildKids(ChildNames(files, folders, parent), files, folders, parent, depth,
            lead, downloaded, partially)

BuildKids(kids, files, folders, parent, depth, lead, downloaded, partially) ==
  IF kids = << >> THEN << >>
  ELSE
    LET name    == kids[1]
        node    == parent \o << name >>
        is_last == Len(kids) = 1
        \* next_prefix keeps being all blanks only below a last child of an
        \* all-blank prefix
        nextLead == IF is_last /\ lead = depth THEN lead + 1 ELSE lead
        line == IF node \in files
                THEN [depth |-> depth, lead |-> lead, name |-> name, folder |-> FALSE,
                      mark |-> TreeNodeMark(node, downloaded, partially)]
                ELSE [depth |-> depth, lead |-> lead, name |-> name, folder |-> TRUE,
                      mark |-> "-"]
        below == IF node \in files THEN << >>
                 ELSE BuildTreeMarkdown(files, folders, node, depth + 1, nextLead,
                                        downloaded, partially)
    IN << line >> \o below
       \o BuildKids(Tail(kids), files, folders, parent, depth, lead, downloaded, partially)

\* create_structure_tree(video_files, folder_info, tree_file_path): the new
\* content of tree.md; video_files and folder_info are sequences of paths
create_structure_tree(video_files, folder_info, m) ==
  LET downloaded == IF m.exists /\ ~ReadRaises(m) THEN DownloadedFiles(m) ELSE {}
      partially  == IF m.exists /\ ~ReadRaises(m) THEN PartiallyDownloadedFiles(m) ELSE {}
      files      == TreeFiles(video_files)
      folders    == TreeFolders(video_files, folder_info)
      sorted     == SortPaths(video_files)
  IN [exists |-> TRUE, kind |-> "document",
      tree   |-> BuildTreeMarkdown(files, folders, << >>, 0, 0, downloaded, partially),
      flat   |-> [i \in 1..Len(sorted) |->
                    [mark |-> FlatMark(sorted[i], downloaded, partially),
                     path |-> Lstrip(sorted[i])]]]

\* the folder-only manifest __main__ writes when no video was found
folder_only_tree(folder_info) ==
  [exists |-> TRUE, kind |-> "document",
   tree   |-> BuildTreeMarkdown({}, TreeFolders(<< >>, folder_info), << >>, 0, 0, {}, {}),
   flat   |-> << >>]

\* The text that follows the status marker of tree line i, after white space:
\* the connector glyph of the next line, or the closing fence.
TokenAfterTreeMark(tree, i) == IF i < Len(tree) THEN "connector" ELSE "fence"

\* pattern2 of the mark functions, (\[ \])(\s*basename): the marker must be
\* FOLLOWED by the base name
Pattern2Matches(tree, i, base, marks) ==
  /\ tree[i].mark \in marks
  /\ TokenAfterTreeMark(tree, i) = base

MarkPartialFlat_AnyMark(line, rel) ==
  IF line.path = rel THEN [line EXCEPT !.mark = "p"] ELSE line

\* pattern 1 of mark_file_partially_downloaded on one flat line
MarkPartialFlat(line, rel) ==
  IF line.mark = " " /\ line.path = rel THEN [line EXCEPT !.mark = "p"] ELSE line

MarkDownloadedFlat_ByName(line, rel) ==
  IF line.mark \in { "p", "x", " " } /\ Basename(line.path) = Basename(rel)
  THEN [line EXCEPT !.mark = "x"] ELSE line

\* pattern 1 of mark_file_downloaded on one flat line
MarkDownloadedFlat(line, rel) ==
  IF line.mark \in { "p", "x", " " } /\ line.path = rel
  THEN [line EXCEPT !.mark = "x"] ELSE line

mark_file_partially_downloaded(rel, m) ==
  IF ~m.exists \/ ReadRaises(m) THEN m
  ELSE [m EXCEPT
          !.flat = [i \in 1..Len(m.flat) |-> MarkPartialFlat(m.flat[i], rel)],
          !.tree = [i \in 1..Len(m.tree) |->
                      IF Pattern2Matches(m.tree, i, Basename(rel), { " " })
                      THEN [m.tree[i] EXCEPT !.mark = "p"] ELSE m.tree[i]]]

mark_file_downloaded(rel, m) ==
  IF ~m.exists \/ ReadRaises(m) THEN m
  ELSE [m EXCEPT
          !.flat = [i \in 1..Len(m.flat) |-> MarkDownloadedFlat(m.flat[i], rel)],
          !.tree = [i \in 1..Len(m.tree) |->
                      IF Pattern2Matches(m.tree, i, Basename(rel), { "p", " " })
                      THEN [m.tree[i] EXCEPT !.mark = "v"] ELSE m.tree[i]]]

\* is_file_downloaded(relative_path, tree_file_path), as "x" for (True, False),
\* "p" for (False, True) and " " for (False, False).  The check-mark tests
\* need a check mark before a backticked path on one line, or a line that
\* starts with a check mark; no line written by the program has either.
is_file_downloaded(rel, m) ==
  IF ~m.exists \/ ReadRaises(m) THEN " "
  ELSE IF \E i \in 1..Len(m.flat) : m.flat[i].mark = "x" /\ m.flat[i].path = rel THEN "x"
  ELSE IF \E i \in 1..Len(m.flat) : m.flat[i].mark = "p" /\ m.flat[i].path = rel THEN "p"
  ELSE " "

\* read_files_from_tree, flat section: match.strip().lstrip('/'), empty skipped
ReadFlat(m, folder_filter) ==
  LET all == [i \in 1..Len(m.flat) |-> Lstrip(m.flat[i].path)]
  IN SelectSeq(all, LAMBDA p : p # << "" >>
                              /\ (folder_filter = "" \/ StartsWithFolder(p, folder_filter)))

\* line.strip() of a tree line: no leading blanks are left
StripLine(line) == [line EXCEPT !.lead = 0]

RECURSIVE ReadTreeFrom(_, _, _, _)
\* read_files_from_tree, tree block: each line is stripped BEFORE its
\* indentation is measured, so level = indent // 4 is computed from the
\* stripped line
ReadTreeFrom(tree, i, current_path, folder_filter) ==
  IF i > Len(tree) THEN << >>
  ELSE
    LET line  == StripLine(tree[i])
        level == line.lead
        cp    == SubSeq(current_path, 1, IF level < Len(current_path) THEN level
                                         ELSE Len(current_path)) \o << line.name >>
        keep  == /\ ~line.folder
                 /\ is_video(line.name)
                 /\ (folder_filter = "" \/ StartsWithFolder(cp, folder_filter))
    IN (IF keep THEN << cp >> ELSE << >>) \o ReadTreeFrom(tree, i + 1, cp, folder_filter)

ReadTree(m, folder_filter) == ReadTreeFrom(m.tree, 1, << >>, folder_filter)

\* read_files_from_tree(tree_file_path, folder_filter): the relative_path of
\* every returned entry, in order; "" is "no filter"
read_files_from_tree(m, folder_filter) ==
  IF ~m.exists \/ ReadRaises(m) THEN << >>
  ELSE ReadFlat(m, folder_filter) \o ReadTree(m, folder_filter)

\* ------------------------------------------------------------------------
\* Discovery of the folder list (parse_public_folder steps 1 and 2)
\* ------------------------------------------------------------------------
\* A listing is a sequence of rendered elements [name, href]; href is the
\* folder reference of a folder element, "none" when no strategy finds one.
\* the listing of the share of Spec as elements
Elements(url) ==
  [i \in 1..Len(Listing(url)) |->
     [name |-> Listing(url)[i], href |-> FolderHref(Listing(url)[i])]]

\* re.sub(r'\s*\d{1,2}\.\d{1,2}\.\d{2,4}.*$', '', name).strip(): the date the
\* page appends to a folder name is cut off (names of two or more characters)
CleanName(raw) == IF raw = "A 01.02.24" THEN "A" ELSE raw

RECURSIVE collect_all_folders(_, _, _, _)
collect_all_folders_NoNameCheck(elements, base_path, processed_folder_urls, folders) ==
  LET first == { i \in 1..Len(elements) :
                   /\ ~is_video(elements[i].name)
                   /\ elements[i].href \notin processed_folder_urls \cup { "none" }
                   /\ \A j \in 1..(i - 1) : elements[j].href # elements[i].href }
      taken == SelectSeq([i \in 1..Len(elements) |-> [e |-> elements[i], first |-> i \in first]],
                         LAMBDA x : x.first)
  IN folders \o
     [i \in 1..Len(taken) |->
        [name |-> CleanName(taken[i].e.name), url |-> taken[i].e.href,
         path |-> IF base_path = << "" >> THEN << CleanName(taken[i].e.name) >>
                  ELSE base_path \o << CleanName(taken[i].e.name) >>]]

\* collect_all_folders on one level, from the element under the cursor on:
\* the folders it appends to `folders`.  An element is skipped when it is a
\* video, has no reference, has a reference in processed_folder_urls, or has
\* the path or the name of a folder already in `folders`.
collect_all_folders(elements, base_path, processed_folder_urls, folders) ==
  IF elements = << >> THEN folders
  ELSE LET e == elements[1]
           cleaned == CleanName(e.name)
           folder_path == IF base_path = << "" >> THEN << cleaned >>
                          ELSE base_path \o << cleaned >>
           is_duplicate == \E i \in 1..Len(folders) :
                             folders[i].path = folder_path \/ folders[i].name = cleaned
           taken == /\ ~is_video(e.name)
                    /\ e.href # "none"
                    /\ e.href \notin processed_folder_urls
                    /\ ~is_duplicate
       IN IF taken
          THEN collect_all_folders(Tail(elements), base_path,
                                   processed_folder_urls \cup { e.href },
                                   Append(folders, [name |-> cleaned, url |-> e.href,
                                                    path |-> folder_path]))
          ELSE collect_all_folders(Tail(elements), base_path, processed_folder_urls,
                                   folders)

UrlsOf_None(folders) == {}

\* processed_folder_urls after collect_all_folders returned `folders`
UrlsOf(folders) == { folders[i].url : i \in 1..Len(folders) }

RECURSIVE parse_public_folder(_, _, _, _)
RECURSIVE CollectSubfolders(_, _, _, _)
\* parse_public_folder steps 1 and 2 on the listing function `pages`:
\* all_folders of this call and processed_folder_urls when it returns
parse_public_folder(pages, public_url, base_path, processed_folder_urls) ==
  LET current_level_folders ==
        collect_all_folders(pages[public_url], base_path, processed_folder_urls, << >>)
      below == CollectSubfolders(pages, current_level_folders, 1,
                                 processed_folder_urls \cup UrlsOf(current_level_folders))
  IN [all_folders |-> current_level_folders \o below.all_folders,
      processed_folder_urls |-> below.processed_folder_urls]

\* step 2: the recursive calls for current_level_folders[k..], in order
CollectSubfolders(pages, level, k, processed_folder_urls) ==
  IF k > Len(level)
  THEN [all_folders |-> << >>, processed_folder_urls |-> processed_folder_urls]
  ELSE LET sub == parse_public_folder(pages, level[k].url, level[k].path,
                                      processed_folder_urls)
           rest == CollectSubfolders(pages, level, k + 1, sub.processed_folder_urls)
       IN [all_folders |-> sub.all_folders \o rest.all_folders,
           processed_folder_urls |-> rest.processed_folder_urls]

\* the references of the share of Spec
Urls == { "u0", "uA", "uB" }

\* all_folders of the root call of parse_public_folder on the share of Spec.
\* The share does not change between runs, so every run collects this list;
\* the specifications of the pipeline hold it in all_folders from the start.
AllFolders ==
  parse_public_folder([u \in Urls |-> Elements(u)], RootUrl, << "" >>, {}).all_folders

\* ------------------------------------------------------------------------
\* sanitize_filename and sanitize_folder_name; a name is the sequence of its
\* characters
\* ------------------------------------------------------------------------
\* invalid_chars = '<>:"|?*\\'
invalid_chars == { "<", ">", ":", "\"", "|", "?", "*", "\\" }

\* sanitized.replace(char, '_') for every char of invalid_chars
ReplaceInvalid(str) ==
  [i \in 1..Len(str) |-> IF str[i] \in invalid_chars THEN "_" ELSE str[i]]

RECURSIVE LStrip(_, _)
LStrip(str, chars) ==
  IF str # << >> /\ str[1] \in chars THEN LStrip(Tail(str), chars) ELSE str

RECURSIVE RStrip(_, _)
RStrip(str, chars) ==
  IF str # << >> /\ str[Len(str)] \in chars
  THEN RStrip(SubSeq(str, 1, Len(str) - 1), chars) ELSE str

\* str.strip(chars)
Strip(str, chars) == RStrip(LStrip(str, chars), chars)

RECURSIVE CollapseUnderscores(_)
\* re.sub(r'_+', '_', str)
CollapseUnderscores(str) ==
  IF Len(str) < 2 THEN str
  ELSE IF str[1] = "_" /\ str[2] = "_" THEN CollapseUnderscores(Tail(str))
  ELSE << str[1] >> \o CollapseUnderscores(Tail(str))

sanitize_filename(filename) ==
  Strip(CollapseUnderscores(Strip(ReplaceInvalid(filename), { ".", " " })), { "_" })

sanitize_folder_name(folder_name) ==
  Strip(CollapseUnderscores(Strip(ReplaceInvalid(folder_name), { ".", " " })), { "_" })

\* ------------------------------------------------------------------------
\* State
\* ------------------------------------------------------------------------
VARIABLES
  manifest,      \* content of tree.md, NoFile when the file does not exist
  cache,         \* local paths under videos/ that hold a file larger than 1 MiB
  pc,            \* control point of the running process, "idle" when none runs
  args,          \* command line flags of the current run
  runs,          \* number of runs started so far
  exitCode,      \* exit code of the last finished run, -1 before any
  folderIdx,     \* parse_public_folder step 3: index into ScanTargets
  elemIdx,       \* parse_folder_contents: idx into all_elements
  file_idx,      \* parse_folder_contents: file_idx
  processed_files, \* parse_folder_contents: processed_files
  items,         \* items collected by discovery
  video_files,   \* __main__: video_files
  idx,           \* __main__: position of the transfer loop
  counters,      \* __main__: successful > 0, failed > 0
  h,             \* history of the current run (observation only)
  prev,          \* summary of the previous run (observation only)
  mop,           \* SpecManifest: the last manifest operation and its argument
  readResult,    \* SpecManifest: result of the last read_files_from_tree
  wr,            \* SpecWrite: the write of tree.md in progress or last ended
  remote,        \* SpecFolders: the listing of every reference of the share
  all_folders,   \* SpecFolders: all_folders returned by parse_public_folder
  flaky,         \* whether reading an element of a listing can raise
  loc_name,      \* parse_folder_contents: `name`, "" while unbound
  loc_href,      \* parse_folder_contents: `href` is bound and not empty
  raw,           \* SpecSanitize: the function under test and its raw argument
  sanitized,     \* SpecSanitize: the results of its successive applications
  config,        \* SpecConfig: command line and environment of the process
  session,       \* the browser session: "none", "open" or "closed"
  browser,       \* whether __main__ holds the handles of the session (browser, context)
  cap,           \* SpecCaptcha: one challenge-handling site and the page it looks at
  disc,          \* SpecDiscovery: the calls of parse_public_folder, step by step
  up,            \* SpecUpload: the upload of one file and its folder requests
  disk           \* SpecStage: the local file of one entry and what was uploaded from it

vars == << manifest, cache, pc, args, runs, exitCode, folderIdx, elemIdx, file_idx,
           processed_files, items, video_files, idx, counters, h, prev, mop,
           readResult, wr, remote, all_folders, flaky, loc_name, loc_href, raw,
           sanitized, config, session, browser, cap, disc, up, disk >>

\* the state of SpecFolders, of SpecSanitize and of SpecConfig
discVars == << remote, all_folders, raw, sanitized, config, cap, disc, up, disk >>

\* locals of parse_folder_contents that outlive one iteration of its loop
scanLocals == << loc_name, loc_href >>

\* the browser session and the handles __main__ has of it
browserVars == << session, browser >>

\* folder_info handed to create_structure_tree
FolderInfo == [i \in 1..Len(all_folders) |-> all_folders[i].path]

ScanTargets_RootFirst ==
  << [url |-> RootUrl, path |-> << "" >>] >>
  \o [i \in 1..Len(all_folders) |-> [url |-> all_folders[i].url, path |-> all_folders[i].path]]

\* the folders parse_folder_contents is called on, in order: every
\* discovered folder, then the root with folder_path ""
ScanTargets ==
  [i \in 1..Len(all_folders) |-> [url |-> all_folders[i].url, path |-> all_folders[i].path]]
  \o << [url |-> RootUrl, path |-> << "" >>] >>

procVars == << pc, args, runs, exitCode, folderIdx, elemIdx, file_idx,
               processed_files, items, video_files, idx, counters, h, prev, cache >>

NoArgs == [parse_only |-> FALSE, dry_run |-> FALSE, use_tree |-> FALSE,
           upload_only |-> FALSE, folder |-> ""]

\* the command lines explored
ArgSets ==
  { [parse_only |-> po, dry_run |-> dr, use_tree |-> ut, upload_only |-> uo, folder |-> f] :
      po \in BOOLEAN, dr \in BOOLEAN, ut \in BOOLEAN, uo \in BOOLEAN, f \in { "", "A" } }

Modes ==
  { a \in ArgSets :
      \/ a = [NoArgs EXCEPT !.folder = a.folder]
      \/ a = [NoArgs EXCEPT !.folder = a.folder, !.parse_only = TRUE]
      \/ a = [NoArgs EXCEPT !.folder = a.folder, !.use_tree = TRUE]
      \/ a = [NoArgs EXCEPT !.folder = a.folder, !.use_tree = TRUE, !.upload_only = TRUE] }

\* the command lines of SpecModes: --dry-run and --upload-only without
\* --use-tree, and the default and --use-tree runs that come before them
DryAndUploadModes ==
  { NoArgs,
    [NoArgs EXCEPT !.use_tree = TRUE],
    [NoArgs EXCEPT !.upload_only = TRUE],
    [NoArgs EXCEPT !.dry_run = TRUE],
    [NoArgs EXCEPT !.dry_run = TRUE, !.use_tree = TRUE] }

IsDefaultMode(a) == a = NoArgs

NoHist == [staged |-> {}, published |-> {}, okStage |-> {}, okBoth |-> {},
           stageFail |-> {}, afterStageFail |-> FALSE,
           pubFail |-> {}, afterPubFail |-> FALSE,
           turnStatus |-> "none", freshStage |-> FALSE]

\* ground truth: the marker the flat section shows for a relativePath
StatusOf(m, key) ==
  IF \E i \in 1..Len(m.flat) : m.flat[i].path = key
  THEN m.flat[CHOOSE i \in 1..Len(m.flat) : m.flat[i].path = key].mark
  ELSE "absent"

Keys(m) == { m.flat[i].path : i \in 1..Len(m.flat) }

StatusRank(s) == CASE s = "x" -> 2 [] s = "p" -> 1 [] OTHER -> 0

\* no write of tree.md has taken place
NoWrite == [active |-> FALSE, before |-> NoFile, after |-> NoFile, pos |-> 0,
            unit |-> "line"]

\* a configuration that passes every check of __main__; each of the three
\* values is "missing" (no argument and no environment variable), "invalid"
\* or "valid"
ValidConfig == [url |-> "valid", destination |-> "valid", token |-> "valid",
                parse_only |-> FALSE, upload_only |-> FALSE]

\* no challenge-handling site is active
NoCap == [site |-> "none", root |-> FALSE, at |-> "resumed", present |-> FALSE,
          lastProbe |-> "none", prompted |-> FALSE, k |-> 0]

\* no call of parse_public_folder has been made
NoDisc == [stack |-> << >>, processed_folder_urls |-> {}, entered |-> << >>,
           failed |-> {}, collected |-> {}, scanned |-> << >>, at |-> "idle"]

NoRaw == [fn |-> "none", name |-> << >>]

\* no local file, nothing uploaded
NoDisk == [large |-> TRUE, file |-> "absent", handed |-> {}]

\* no upload is under way
NoUp == [at |-> "idle", parts |-> << >>, folder_path |-> << >>, i |-> 0,
         current_path |-> << >>, requests |-> << >>, answers |-> {},
         full_destination |-> << >>]

InitProc ==
  /\ cache = {}
  /\ session = "none"
  /\ browser = FALSE
  /\ pc = "idle"
  /\ args = NoArgs
  /\ runs = 0
  /\ exitCode = -1
  /\ folderIdx = 0
  /\ elemIdx = 0
  /\ file_idx = 0
  /\ processed_files = {}
  /\ items = << >>
  /\ video_files = << >>
  /\ idx = 0
  /\ counters = [successful |-> FALSE, failed |-> FALSE]
  /\ h = NoHist
  /\ prev = [default |-> FALSE, okBoth |-> {}]

Init ==
  /\ manifest = NoFile
  /\ InitProc
  /\ mop = [kind |-> "init", arg |-> << >>]
  /\ readResult = << >>
  /\ wr = NoWrite
  /\ remote = [u \in Urls |-> Elements(u)]
  /\ all_folders = AllFolders
  /\ flaky = FALSE
  /\ loc_name = ""
  /\ loc_href = FALSE
  /\ raw = NoRaw
  /\ sanitized = << >>
  /\ config = ValidConfig
  /\ cap = NoCap
  /\ disc = NoDisc
  /\ up = NoUp
  /\ disk = NoDisk

\* ------------------------------------------------------------------------
\* The process: __main__, parse_public_folder step 3, parse_folder_contents
\* ------------------------------------------------------------------------
\* the process ends (sys.exit); its locals are gone
Exit(code) ==
  /\ pc' = "idle"
  /\ exitCode' = code
  /\ folderIdx' = 0
  /\ elemIdx' = 0
  /\ file_idx' = 0
  /\ processed_files' = {}
  /\ items' = << >>
  /\ video_files' = << >>
  /\ idx' = 0
  /\ loc_name' = ""
  /\ loc_href' = FALSE

\* the cleanup that goes with the end of the process (the explicit ones
\* before sys.exit and the finally block of __main__): the session is closed
\* when __main__ holds its handles; a step that does not end the process
\* leaves both alone
CloseOnExit ==
  /\ session' = IF pc' = "idle" /\ browser THEN "closed" ELSE session
  /\ browser' = (browser /\ pc' # "idle")

\* find_file_on_page(page, file_name, folder_url = public_folder_url, ...):
\* the name is looked up among the entries of the root page only
find_file_on_page(file_name) == file_name \in Range(Listing(RootUrl))

RECURSIVE FindTreeFiles(_, _)
\* __main__, --use-tree with a browser: keep the entries that were found
FindTreeFiles(tree_files, acc) ==
  IF tree_files = << >> THEN acc
  ELSE FindTreeFiles(Tail(tree_files),
         IF find_file_on_page(Basename(tree_files[1]))
         THEN Append(acc, [rel |-> tree_files[1], order |-> Len(acc), url |-> TRUE])
         ELSE acc)

\* __main__ up to the start of parsing, or up to the common section with
\* --use-tree
StartRun(a) ==
  /\ pc = "idle"
  /\ runs < MaxRuns
  /\ runs' = runs + 1
  /\ args' = a
  /\ prev' = [default |-> runs > 0 /\ IsDefaultMode(args), okBoth |-> h.okBoth]
  /\ h' = NoHist
  /\ counters' = [successful |-> FALSE, failed |-> FALSE]
  \* the videos/ directory the run finds: as the last run left it, or emptied
  \* by the user in between (the case the transfer loop re-downloads for)
  /\ \E kept \in BOOLEAN : cache' = IF kept THEN cache ELSE {}
  /\ UNCHANGED << manifest, mop, readResult, wr, remote, raw, sanitized, config, cap, disc, up, disk, flaky >>
  \* parse_public_folder steps 1 and 2, when the run parses the share
  /\ all_folders' = IF a.use_tree THEN all_folders
                    ELSE parse_public_folder(remote, RootUrl, << "" >>, {}).all_folders
  /\ IF a.use_tree
     THEN IF ~manifest.exists
          THEN Exit(EXIT_INVALID_ARGS)
          ELSE LET tree_files == read_files_from_tree(manifest, a.folder)
               IN IF tree_files = << >>
                  THEN Exit(EXIT_SUCCESS)
                  ELSE /\ pc' = "post"
                       /\ video_files' =
                            IF a.upload_only
                            THEN [i \in 1..Len(tree_files) |->
                                    [rel |-> tree_files[i], order |-> i - 1, url |-> FALSE]]
                            ELSE FindTreeFiles(tree_files, << >>)
                       /\ UNCHANGED << exitCode, folderIdx, elemIdx, file_idx,
                                       processed_files, items, idx, scanLocals >>
     ELSE /\ pc' = "scan"
          /\ folderIdx' = 1
          /\ elemIdx' = 1
          /\ file_idx' = 0
          /\ processed_files' = {}
          /\ items' = << >>
          /\ UNCHANGED << exitCode, video_files, idx, scanLocals >>
  \* the browser is launched by __main__ (--use-tree without --upload-only),
  \* which then holds its handles, or by the root call of
  \* parse_public_folder, which holds them until it returns
  /\ session' = IF pc' = "scan" \/ (pc' = "post" /\ ~a.upload_only) THEN "open" ELSE "none"
  /\ browser' = (pc' = "post" /\ ~a.upload_only)

download_immediately_Always == TRUE

\* download_immediately as set by __main__ for parse_public_folder
download_immediately == ~args.parse_only

\* relative_path = f"{folder_path}/{name}" of the element under the cursor
CurTarget == ScanTargets[folderIdx]

CurName == Listing(CurTarget.url)[elemIdx]

CurRel == CurTarget.path \o << CurName >>

\* local_path: the non-empty parts joined under videos/ (the names of the
\* model alphabet hold no character that sanitize_* rewrites)
LocalPath(rel) == NonEmptyParts(rel)

\* the `continue` of the element loop
NextElement ==
  /\ elemIdx' = elemIdx + 1
  /\ pc' = "scan"
  /\ UNCHANGED << folderIdx, args, runs, exitCode, video_files, idx, counters >>

\* the except branch of the element loop with href available: the element
\* is added to items and the loop continues
RecoverItem ==
  /\ items' = Append(items, [rel |-> CurRel, order |-> file_idx, url |-> TRUE])
  /\ file_idx' = file_idx + 1
  /\ NextElement

\* the except branch of the element loop reached before `name` and `href`
\* were assigned in this iteration: they still hold the values of an
\* earlier iteration, and the entry added carries that name
RecoverStale ==
  /\ items' = Append(items, [rel |-> CurTarget.path \o << loc_name >>,
                             order |-> file_idx, url |-> TRUE])
  /\ file_idx' = file_idx + 1
  /\ NextElement

\* parse_folder_contents: one element, from the read of its name to the
\* decision what to do with it.  read_fails: the read of the name raises an
\* error other than a destroyed execution context.
ScanElement ==
  /\ pc = "scan"
  /\ elemIdx <= Len(Listing(CurTarget.url))
  /\ UNCHANGED << manifest, cache, prev, mop, readResult, wr, discVars, flaky, browserVars >>
  /\ \E read_fails \in (IF flaky THEN BOOLEAN ELSE { FALSE }) :
      IF read_fails
      THEN /\ IF loc_href
              THEN RecoverStale
              ELSE /\ NextElement
                   /\ UNCHANGED << file_idx, items >>
           /\ UNCHANGED << processed_files, h, scanLocals >>
      ELSE
       /\ loc_name' = CurName
       /\ IF ~is_video(CurName) \/ CurName \in processed_files
          THEN /\ NextElement
               /\ UNCHANGED << file_idx, processed_files, items, h, loc_href >>
          ELSE /\ processed_files' = processed_files \cup { CurName }
               /\ loc_href' = HrefResolves(CurName)
               /\ LET href == HrefResolves(CurName)
                  IN
                    IF ~href
                    THEN \* "Cannot find download URL": raised and caught by the
                         \* element's own except branch, href is empty
                         /\ NextElement
                         /\ UNCHANGED << file_idx, items, h >>
                    ELSE IF download_immediately
                    THEN LET st == is_file_downloaded(CurRel, manifest)
                         IN /\ h' = [h EXCEPT !.turnStatus = StatusOf(manifest, Lstrip(CurRel)),
                                              !.freshStage = FALSE]
                            /\ IF st = "x"
                               THEN /\ NextElement
                                    /\ UNCHANGED << file_idx, items >>
                               ELSE /\ pc' = IF st # "p" \/ LocalPath(CurRel) \notin cache
                                             THEN "im_stage" ELSE "im_publish"
                                    /\ UNCHANGED << folderIdx, elemIdx, args, runs, exitCode,
                                                    video_files, idx, counters, file_idx, items >>
                    ELSE /\ items' = Append(items, [rel |-> CurRel, order |-> file_idx,
                                                    url |-> TRUE])
                         /\ file_idx' = file_idx + 1
                         /\ NextElement
                         /\ UNCHANGED h

\* history: download_video is invoked for key
NoteStage(hh, key, ok) ==
  [hh EXCEPT !.staged = @ \cup { key },
             !.okStage = IF ok THEN @ \cup { key } ELSE @,
             !.stageFail = IF ok THEN @ ELSE @ \cup { key },
             !.afterStageFail = @ \/ (hh.stageFail \ { key }) # {},
             !.afterPubFail = @ \/ (hh.pubFail \ { key }) # {},
             !.freshStage = ok /\ hh.turnStatus = " "]

\* history: upload_to_yandex_disk is invoked for key
NotePublish(hh, key, ok) ==
  [hh EXCEPT !.published = @ \cup { key },
             !.okBoth = IF ok /\ key \in hh.okStage THEN @ \cup { key } ELSE @,
             !.pubFail = IF ok THEN @ ELSE @ \cup { key },
             !.afterStageFail = @ \/ (hh.stageFail \ { key }) # {},
             !.afterPubFail = @ \/ (hh.pubFail \ { key }) # {}]

download_video_AlwaysTransfers(local_path, transfer_ok) == transfer_ok

\* download_video(url, local_path): TRUE without a transfer when the file is
\* already there and larger than 1 MiB, else the outcome of the transfer
download_video(local_path, transfer_ok) == local_path \in cache \/ transfer_ok

\* immediate path: download_video
ImStage ==
  /\ pc = "im_stage"
  /\ \E transfer_ok \in BOOLEAN :
       LET ok == download_video(LocalPath(CurRel), transfer_ok)
       IN /\ h' = NoteStage(h, Lstrip(CurRel), ok)
          /\ IF ok
             THEN /\ cache' = cache \cup { LocalPath(CurRel) }
                  /\ pc' = "im_markp"
                  /\ UNCHANGED << folderIdx, elemIdx, args, runs, exitCode, video_files,
                                  idx, counters, file_idx, items >>
             ELSE \* "Download failed": raised, re-raised, and caught by the
                  \* except branch of the element loop
                  /\ RecoverItem
                  /\ UNCHANGED cache
  /\ UNCHANGED << manifest, processed_files, prev, mop, readResult, wr, discVars, flaky, browserVars,
                  scanLocals >>

ImMarkP ==
  /\ pc = "im_markp"
  /\ manifest' = mark_file_partially_downloaded(CurRel, manifest)
  /\ pc' = "im_publish"
  /\ UNCHANGED << cache, args, runs, exitCode, folderIdx, elemIdx, file_idx,
                  processed_files, items, video_files, idx, counters, h, prev, mop,
                  readResult, wr, discVars, flaky, browserVars,
                  scanLocals >>

\* immediate path: create_folder_structure and upload_to_yandex_disk
ImPublish ==
  /\ pc = "im_publish"
  /\ \E ok \in BOOLEAN :
       /\ h' = NotePublish(h, Lstrip(CurRel), ok)
       /\ IF ok
          THEN /\ pc' = "im_markx"
               /\ UNCHANGED << folderIdx, elemIdx, args, runs, exitCode, video_files,
                               idx, counters, file_idx, items >>
          ELSE \* "Upload failed": raised and caught like a failed download
               RecoverItem
  /\ UNCHANGED << manifest, cache, processed_files, prev, mop, readResult, wr, discVars, flaky, browserVars,
                  scanLocals >>

ImMarkX ==
  /\ pc = "im_markx"
  /\ manifest' = mark_file_downloaded(CurRel, manifest)
  /\ pc' = "im_remove"
  /\ UNCHANGED << cache, args, runs, exitCode, folderIdx, elemIdx, file_idx,
                  processed_files, items, video_files, idx, counters, h, prev, mop,
                  readResult, wr, discVars, flaky, browserVars,
                  scanLocals >>

ImRemove ==
  /\ pc = "im_remove"
  /\ cache' = cache \ { LocalPath(CurRel) }
  /\ NextElement
  /\ UNCHANGED << manifest, file_idx, processed_files, items, h, prev, mop, readResult, wr, discVars, flaky, browserVars,
                  scanLocals >>

\* filter_video_files(items)
filter_video_files(its) == SelectSeq(its, LAMBDA it : HasVideoExt(Basename(it.rel)))

\* parse_folder_contents returns; parse_public_folder moves to the next
\* folder, and after the root to the return into __main__
ScanEndFolder ==
  /\ pc = "scan"
  /\ elemIdx > Len(Listing(CurTarget.url))
  /\ loc_name' = ""
  /\ loc_href' = FALSE
  /\ IF folderIdx < Len(ScanTargets)
     THEN /\ folderIdx' = folderIdx + 1
          /\ elemIdx' = 1
          /\ file_idx' = 0
          /\ processed_files' = {}
          /\ UNCHANGED << pc, video_files >>
     ELSE /\ pc' = "post"
          /\ video_files' = filter_video_files(items)
          /\ UNCHANGED << folderIdx, elemIdx, file_idx, processed_files >>
  /\ UNCHANGED << manifest, cache, args, runs, exitCode, items, idx, counters, h, prev,
                  mop, readResult, wr, discVars, flaky >>
  \* parse_public_folder returns the handles of its session to __main__
  /\ browser' = (pc' = "post")
  /\ UNCHANGED session

RECURSIVE SortByOrder(_, _)
\* video_files.sort(key=order): stable, so entries of equal order keep their
\* relative position
SortByOrder(s, k) ==
  IF k > Len(s) THEN << >>
  ELSE SelectSeq(s, LAMBDA it : it.order = k) \o SortByOrder(s, k + 1)

\* __main__ from the folder filter to the start of the transfer loop (the
\* common section included)
Post ==
  /\ pc = "post"
  /\ LET filtered == IF ~args.use_tree /\ args.folder # ""
                     THEN SelectSeq(video_files,
                                    LAMBDA v : StartsWithFolder(v.rel, args.folder))
                     ELSE video_files
         vf == SortByOrder(filtered, 0)
         paths == [i \in 1..Len(vf) |-> vf[i].rel]
         written == IF args.use_tree THEN manifest
                    ELSE IF vf # << >>
                    THEN create_structure_tree(paths, FolderInfo, manifest)
                    ELSE IF FolderInfo # << >> THEN folder_only_tree(FolderInfo)
                    ELSE manifest
     IN IF ~args.use_tree /\ filtered = << >> /\ ~args.parse_only
        THEN \* "No video files found": exit before tree.md is written
             /\ Exit(EXIT_SUCCESS)
             /\ UNCHANGED manifest
        ELSE /\ manifest' = written
             /\ IF args.parse_only \/ args.dry_run
                   \/ (~args.use_tree /\ download_immediately /\ Len(vf) = 0)
                THEN Exit(EXIT_SUCCESS)
                ELSE /\ pc' = "turn"
                     /\ idx' = 1
                     /\ video_files' = vf
                     /\ UNCHANGED << exitCode, folderIdx, elemIdx, file_idx,
                                     processed_files, items, scanLocals >>
  /\ UNCHANGED << cache, args, runs, counters, h, prev, mop, readResult, wr, discVars, flaky >>
  /\ CloseOnExit

\* relative_path of the entry of the transfer loop, cleaned
LoopRel == Lstrip(video_files[idx].rel)

\* `continue` of the transfer loop
NextTurn ==
  /\ idx' = idx + 1
  /\ pc' = "turn"
  /\ UNCHANGED << args, runs, exitCode, folderIdx, elemIdx, file_idx, processed_files,
                  items, video_files, scanLocals >>

StayInTurn(next) ==
  /\ pc' = next
  /\ UNCHANGED << args, runs, exitCode, folderIdx, elemIdx, file_idx, processed_files,
                  items, video_files, idx, scanLocals >>

\* transfer loop: head of one iteration, up to the decision what to call
Turn ==
  /\ pc = "turn"
  /\ idx <= Len(video_files)
  /\ UNCHANGED << manifest, cache, prev, mop, readResult, wr, discVars, flaky, browserVars >>
  /\ LET st == is_file_downloaded(LoopRel, manifest)
         hh == [h EXCEPT !.turnStatus = StatusOf(manifest, LoopRel),
                         !.freshStage = FALSE]
     IN IF ~args.upload_only /\ ~video_files[idx].url
        THEN /\ counters' = [counters EXCEPT !.failed = TRUE]
             /\ NextTurn
             /\ UNCHANGED h
        ELSE /\ h' = hh
             /\ IF st = "x"
                THEN /\ counters' = [counters EXCEPT !.successful = TRUE]
                     /\ NextTurn
                ELSE IF args.upload_only
                THEN IF LocalPath(LoopRel) \in cache
                     THEN /\ StayInTurn("lp_publish")
                          /\ UNCHANGED counters
                     ELSE /\ counters' = [counters EXCEPT !.failed = TRUE]
                          /\ NextTurn
                ELSE /\ UNCHANGED counters
                     /\ IF st # "p" THEN StayInTurn("lp_stage")
                        ELSE IF LocalPath(LoopRel) \notin cache
                        THEN StayInTurn("lp_restage")
                        ELSE StayInTurn("lp_publish")

\* transfer loop: download_video of a file that is not marked [p]
LpStage ==
  /\ pc = "lp_stage"
  /\ \E transfer_ok \in BOOLEAN :
       LET ok == download_video(LocalPath(LoopRel), transfer_ok)
       IN /\ h' = NoteStage(h, LoopRel, ok)
          /\ IF ok
             THEN /\ cache' = cache \cup { LocalPath(LoopRel) }
                  /\ StayInTurn("lp_markp")
             ELSE /\ Exit(EXIT_ERROR)
                  /\ UNCHANGED << cache, args, runs >>
  /\ UNCHANGED << manifest, counters, prev, mop, readResult, wr, discVars, flaky >>
  /\ CloseOnExit

\* transfer loop: a file marked [p] whose local copy is missing is
\* downloaded again; its marker is left as it is
LpRestage ==
  /\ pc = "lp_restage"
  /\ \E transfer_ok \in BOOLEAN :
       LET ok == download_video(LocalPath(LoopRel), transfer_ok)
       IN /\ h' = NoteStage(h, LoopRel, ok)
          /\ IF ok
             THEN /\ cache' = cache \cup { LocalPath(LoopRel) }
                  /\ StayInTurn("lp_publish")
             ELSE /\ Exit(EXIT_ERROR)
                  /\ UNCHANGED << cache, args, runs >>
  /\ UNCHANGED << manifest, counters, prev, mop, readResult, wr, discVars, flaky >>
  /\ CloseOnExit

LpMarkP ==
  /\ pc = "lp_markp"
  /\ manifest' = mark_file_partially_downloaded(LoopRel, manifest)
  /\ StayInTurn("lp_publish")
  /\ UNCHANGED << cache, counters, h, prev, mop, readResult, wr, discVars, flaky, browserVars >>

\* transfer loop: create_folder_structure and upload_to_yandex_disk; the
\* value upload_to_yandex_disk returns is not looked at.  For a file with a
\* video extension upload_to_yandex_disk returns the result of the extension
\* workaround, which reports every failure by returning False.
LpPublish ==
  /\ pc = "lp_publish"
  /\ \E ok \in BOOLEAN : h' = NotePublish(h, LoopRel, ok)
  /\ StayInTurn("lp_markx")
  /\ UNCHANGED << manifest, cache, counters, prev, mop, readResult, wr, discVars, flaky, browserVars >>

LpMarkX ==
  /\ pc = "lp_markx"
  /\ manifest' = mark_file_downloaded(LoopRel, manifest)
  /\ counters' = [counters EXCEPT !.successful = TRUE]
  /\ StayInTurn("lp_remove")
  /\ UNCHANGED << cache, h, prev, mop, readResult, wr, discVars, flaky, browserVars >>

LpRemove ==
  /\ pc = "lp_remove"
  /\ cache' = cache \ { LocalPath(LoopRel) }
  /\ NextTurn
  /\ UNCHANGED << manifest, counters, h, prev, mop, readResult, wr, discVars, flaky, browserVars >>

\* end of the transfer loop: the final exit code
LoopEnd ==
  /\ pc = "turn"
  /\ idx > Len(video_files)
  /\ Exit(IF counters.successful \/ ~counters.failed THEN EXIT_SUCCESS ELSE EXIT_ERROR)
  /\ UNCHANGED << manifest, cache, args, runs, counters, h, prev, mop, readResult, wr, discVars, flaky >>
  /\ CloseOnExit

\* KeyboardInterrupt at any point of a run
Interrupt ==
  /\ pc # "idle"
  /\ Exit(EXIT_ERROR)
  /\ UNCHANGED << manifest, cache, args, runs, counters, h, prev, mop, readResult, wr, discVars, flaky >>
  /\ CloseOnExit

Next ==
  \/ \E a \in Modes : StartRun(a)
  \/ ScanElement
  \/ ImStage
  \/ ImMarkP
  \/ ImPublish
  \/ ImMarkX
  \/ ImRemove
  \/ ScanEndFolder
  \/ Post
  \/ Turn
  \/ LpStage
  \/ LpRestage
  \/ LpMarkP
  \/ LpPublish
  \/ LpMarkX
  \/ LpRemove
  \/ LoopEnd
  \/ Interrupt

Spec == Init /\ [][Next]_vars

\* ------------------------------------------------------------------------
\* SpecModes: the runs of Spec under the --dry-run and --upload-only command
\* lines
\* ------------------------------------------------------------------------
NextModes ==
  \/ \E a \in DryAndUploadModes : StartRun(a)
  \/ ScanElement
  \/ ImStage
  \/ ImMarkP
  \/ ImPublish
  \/ ImMarkX
  \/ ImRemove
  \/ ScanEndFolder
  \/ Post
  \/ Turn
  \/ LpStage
  \/ LpRestage
  \/ LpMarkP
  \/ LpPublish
  \/ LpMarkX
  \/ LpRemove
  \/ LoopEnd
  \/ Interrupt

SpecModes == Init /\ [][NextModes]_vars

\* ------------------------------------------------------------------------
\* SpecFlaky: the runs of Spec on a page whose element reads can raise
\* ------------------------------------------------------------------------
InitFlaky ==
  /\ manifest = NoFile
  /\ InitProc
  /\ mop = [kind |-> "init", arg |-> << >>]
  /\ readResult = << >>
  /\ wr = NoWrite
  /\ remote = [u \in Urls |-> Elements(u)]
  /\ all_folders = AllFolders
  /\ flaky = TRUE
  /\ loc_name = ""
  /\ loc_href = FALSE
  /\ raw = NoRaw
  /\ sanitized = << >>
  /\ config = ValidConfig
  /\ cap = NoCap
  /\ disc = NoDisc
  /\ up = NoUp
  /\ disk = NoDisk

SpecFlaky == InitFlaky /\ [][Next]_vars

\* ------------------------------------------------------------------------
\* SpecOrder: the common section and the transfer loop of one default run,
\* started where parse_public_folder has returned the entries that the
\* except branch of the element loop added, for every share whose folders
\* hold up to MaxFolderFiles videos
\* ------------------------------------------------------------------------
\* the lists of distinct video names one folder can render
FolderLists ==
  { l \in UNION { [1..n -> { x \in VideoNames : HrefResolves(x) }] :
                    n \in 0..MaxFolderFiles } :
      \A i, j \in 1..Len(l) : i # j => l[i] # l[j] }

\* items of one parse_folder_contents call: order is file_idx, counted from
\* 0 in every folder
ItemsOfFolder(folder_path, names) ==
  [i \in 1..Len(names) |->
     [rel |-> folder_path \o << names[i] >>, order |-> i - 1, url |-> TRUE]]

RECURSIVE ExtendItems(_, _)
\* items.extend(folder_items) for every folder, then for the root
ExtendItems(lists, t) ==
  IF t > Len(ScanTargets) THEN << >>
  ELSE ItemsOfFolder(ScanTargets[t].path, lists[t]) \o ExtendItems(lists, t + 1)

\* tree.md as an earlier run can have left it for these entries: absent, or
\* listing them with one of them marked [p]
EarlierManifests(its) ==
  LET paths == [i \in 1..Len(its) |-> its[i].rel]
      fresh == create_structure_tree(paths, FolderInfo, NoFile)
  IN { NoFile } \cup
     { mark_file_partially_downloaded(Lstrip(paths[i]), fresh) : i \in 1..Len(paths) }

InitOrder ==
  /\ all_folders = AllFolders
  /\ \E lists \in [1..Len(ScanTargets) -> FolderLists] :
       LET its == ExtendItems(lists, 1)
       IN /\ manifest \in EarlierManifests(its)
          /\ cache = {}
          /\ session = "open"
          /\ browser = TRUE
          /\ pc = "post"
          /\ args = NoArgs
          /\ runs = 1
          /\ exitCode = -1
          /\ folderIdx = Len(ScanTargets)
          /\ elemIdx = 0
          /\ file_idx = 0
          /\ processed_files = {}
          /\ items = its
          /\ video_files = filter_video_files(its)
          /\ idx = 0
          /\ counters = [successful |-> FALSE, failed |-> FALSE]
          /\ h = NoHist
          /\ prev = [default |-> FALSE, okBoth |-> {}]
          /\ mop = [kind |-> "init", arg |-> << >>]
          /\ readResult = << >>
          /\ wr = NoWrite
          /\ remote = [u \in Urls |-> Elements(u)]
          /\ flaky = FALSE
          /\ loc_name = ""
          /\ loc_href = FALSE
          /\ raw = NoRaw
          /\ sanitized = << >>
          /\ config = ValidConfig
          /\ cap = NoCap
          /\ disc = NoDisc
          /\ up = NoUp
          /\ disk = NoDisk

NextOrder ==
  \/ Post
  \/ Turn
  \/ LpStage
  \/ LpRestage
  \/ LpMarkP
  \/ LpPublish
  \/ LpMarkX
  \/ LpRemove
  \/ LoopEnd

SpecOrder == InitOrder /\ [][NextOrder]_vars

\* ------------------------------------------------------------------------
\* SpecFolders: steps 1 and 2 of the root call of parse_public_folder on
\* every share whose pages render up to MaxElems elements
\* ------------------------------------------------------------------------
\* the elements a page can render: folder A, the same folder name with a date
\* under another reference, a link back to the root, and a video
PageElems ==
  { [name |-> "A", href |-> "uA"], [name |-> "A 01.02.24", href |-> "uB"],
    [name |-> "R", href |-> "u0"], [name |-> "a.mp4", href |-> "none"] }

Pages == UNION { [1..n -> PageElems] : n \in 0..MaxElems }

InitFolders ==
  /\ manifest = NoFile
  /\ InitProc
  /\ mop = [kind |-> "init", arg |-> << >>]
  /\ readResult = << >>
  /\ wr = NoWrite
  /\ remote \in [Urls -> Pages]
  /\ all_folders = << >>
  /\ flaky = FALSE
  /\ loc_name = ""
  /\ loc_href = FALSE
  /\ raw = NoRaw
  /\ sanitized = << >>
  /\ config = ValidConfig
  /\ cap = NoCap
  /\ disc = NoDisc
  /\ up = NoUp
  /\ disk = NoDisk

\* the root call of parse_public_folder up to the end of step 2
CollectFolders ==
  /\ pc = "idle"
  /\ pc' = "step3"
  /\ all_folders' = parse_public_folder(remote, RootUrl, << "" >>, {}).all_folders
  /\ UNCHANGED << manifest, cache, args, runs, exitCode, folderIdx, elemIdx, file_idx,
                  processed_files, items, video_files, idx, counters, h, prev, mop,
                  readResult, wr, remote, flaky, browserVars, scanLocals, raw, sanitized, config, cap, disc, up, disk >>

NextFolders == CollectFolders

SpecFolders == InitFolders /\ [][NextFolders]_vars

\* ------------------------------------------------------------------------
\* SpecSanitize: sanitize_filename or sanitize_folder_name applied to a raw
\* name of up to MaxNameLen characters, and again to its own result
\* ------------------------------------------------------------------------
\* a letter, the characters the functions strip or collapse, one of
\* invalid_chars, and the two path separators
NameChars == { "a", "_", ".", " ", "<", "/", "\\" }

RawNames == UNION { [1..n -> NameChars] : n \in 0..MaxNameLen }

InitSanitize ==
  /\ manifest = NoFile
  /\ InitProc
  /\ mop = [kind |-> "init", arg |-> << >>]
  /\ readResult = << >>
  /\ wr = NoWrite
  /\ remote = [u \in Urls |-> Elements(u)]
  /\ all_folders = << >>
  /\ flaky = FALSE
  /\ loc_name = ""
  /\ loc_href = FALSE
  /\ raw \in { [fn |-> f, name |-> n] : f \in { "file", "folder" }, n \in RawNames }
  /\ sanitized = << >>
  /\ config = ValidConfig
  /\ cap = NoCap
  /\ disc = NoDisc
  /\ up = NoUp
  /\ disk = NoDisk

\* the argument of the next application
SanitizeArg == IF sanitized = << >> THEN raw.name ELSE sanitized[Len(sanitized)]

SanitizeFilename ==
  /\ raw.fn = "file"
  /\ Len(sanitized) < 2
  /\ sanitized' = Append(sanitized, sanitize_filename(SanitizeArg))
  /\ UNCHANGED << manifest, procVars, mop, readResult, wr, remote, all_folders, flaky, browserVars,
                  scanLocals, raw, config, cap, disc, up, disk >>

SanitizeFolderName ==
  /\ raw.fn = "folder"
  /\ Len(sanitized) < 2
  /\ sanitized' = Append(sanitized, sanitize_folder_name(SanitizeArg))
  /\ UNCHANGED << manifest, procVars, mop, readResult, wr, remote, all_folders, flaky, browserVars,
                  scanLocals, raw, config, cap, disc, up, disk >>

NextSanitize == SanitizeFilename \/ SanitizeFolderName

SpecSanitize == InitSanitize /\ [][NextSanitize]_vars

\* ------------------------------------------------------------------------
\* SpecConfig: __main__ from the command line to the start of the browser,
\* for every combination of missing, invalid and valid configuration values
\* ------------------------------------------------------------------------
Configs ==
  [url : { "missing", "invalid", "valid" },
   destination : { "missing", "invalid", "valid" },
   token : { "missing", "invalid", "valid" },
   parse_only : BOOLEAN, upload_only : BOOLEAN]

InitConfig ==
  /\ manifest = NoFile
  /\ InitProc
  /\ mop = [kind |-> "init", arg |-> << >>]
  /\ readResult = << >>
  /\ wr = NoWrite
  /\ remote = [u \in Urls |-> Elements(u)]
  /\ all_folders = << >>
  /\ flaky = FALSE
  /\ loc_name = ""
  /\ loc_href = FALSE
  /\ raw = NoRaw
  /\ sanitized = << >>
  /\ config \in Configs
  /\ cap = NoCap
  /\ disc = NoDisc
  /\ up = NoUp
  /\ disk = NoDisk

\* get_public_folder_url, get_destination_path or get_oauth_token raises
\* ValueError: no argument, no environment variable, and the value is asked
\* for
GetterRaises(c) ==
  \/ ~c.upload_only /\ c.url = "missing"
  \/ ~c.parse_only /\ c.destination = "missing"
  \/ ~c.parse_only /\ c.token = "missing"

\* one of the two validations of __main__ fails; the token is not validated
ValidationFails(c) ==
  \/ ~c.upload_only /\ c.url = "invalid"
  \/ ~c.parse_only /\ c.destination = "invalid"

\* __main__ up to "Initialize browser": a ValueError is caught by the
\* except Exception branch at the end of __main__
Configure ==
  /\ pc = "idle"
  /\ runs = 0
  /\ runs' = 1
  /\ IF GetterRaises(config) THEN pc' = "idle" /\ exitCode' = EXIT_ERROR
     ELSE IF ValidationFails(config) THEN pc' = "idle" /\ exitCode' = EXIT_INVALID_ARGS
     ELSE pc' = "browser" /\ UNCHANGED exitCode
  /\ UNCHANGED << manifest, cache, args, folderIdx, elemIdx, file_idx, processed_files,
                  items, video_files, idx, counters, h, prev, mop, readResult, wr,
                  discVars, flaky, browserVars, scanLocals >>

NextConfig == Configure

SpecConfig == InitConfig /\ [][NextConfig]_vars

\* ------------------------------------------------------------------------
\* SpecCaptcha: the challenge handling at each of its five sites.  The page
\* shows a challenge or not (cap.present); the operator can solve it in the
\* browser and can press ENTER at a prompt, in either order.
\* ------------------------------------------------------------------------
\* elements of the listing scanned at the periodic site
ScanLen == 31

\* the scan of parse_folder_contents probes before element idx when
\* idx > 0 and idx % 10 == 0
RecheckEvery == 10

\* the sites whose handler is a `while not captcha_solved` loop
LoopSites == { "collect_all_folders", "parse_folder_contents", "parse_public_folder",
               "find_file_on_page" }

InitCaptcha ==
  /\ manifest = NoFile
  /\ InitProc
  /\ mop = [kind |-> "init", arg |-> << >>]
  /\ readResult = << >>
  /\ wr = NoWrite
  /\ remote = [u \in Urls |-> Elements(u)]
  /\ all_folders = << >>
  /\ flaky = FALSE
  /\ loc_name = ""
  /\ loc_href = FALSE
  /\ raw = NoRaw
  /\ sanitized = << >>
  /\ config = ValidConfig
  /\ disc = NoDisc
  /\ up = NoUp
  /\ disk = NoDisk
  /\ \/ \E s \in LoopSites, r \in BOOLEAN, p \in BOOLEAN :
          /\ (r => s = "parse_public_folder")
          /\ cap = [NoCap EXCEPT !.site = s, !.root = r, !.at = "probe", !.present = p]
     \/ cap = [NoCap EXCEPT !.site = "periodic"]

capUnchanged ==
  UNCHANGED << manifest, procVars, mop, readResult, wr, remote, all_folders, flaky,
               browserVars, scanLocals, raw, sanitized, config, disc, up, disk >>

\* the selectors are queried at the head of the handler: a challenge that is
\* found leads to the prompt (a nested call of parse_public_folder prints no
\* prompt and only waits), none lets the caller go on
CapProbe ==
  /\ cap.at = "probe"
  /\ cap' = [cap EXCEPT
               !.lastProbe = IF cap.present THEN "found" ELSE "clear",
               !.at = IF ~cap.present THEN "resumed"
                      ELSE IF cap.site = "parse_public_folder" /\ ~cap.root THEN "reprobe"
                      ELSE "prompt"]
  /\ capUnchanged

\* the operator solves the challenge in the browser window
CapSolve ==
  /\ cap.present
  /\ cap.at \in { "probe", "prompt", "reprobe" }
  /\ cap' = [cap EXCEPT !.present = FALSE]
  /\ capUnchanged

\* input() returns: the operator pressed ENTER.  At the periodic site the
\* page is loaded again and the scan goes on; at the other sites the
\* selectors are queried again.
CapSignal ==
  /\ cap.at = "prompt"
  /\ cap' = [cap EXCEPT !.prompted = TRUE,
                        !.at = IF cap.site = "periodic" THEN "resumed" ELSE "reprobe"]
  /\ capUnchanged

\* the second query of the selectors: captcha_solved is set when nothing is
\* found, else the while loop starts over
CapReprobe ==
  /\ cap.at = "reprobe"
  /\ cap' = [cap EXCEPT
               !.lastProbe = IF cap.present THEN "found" ELSE "clear",
               !.at = IF cap.present THEN "probe" ELSE "resumed"]
  /\ capUnchanged

\* one element of the listing is processed at the periodic site; a
\* challenge can come up while the scan runs
CapScanStep ==
  /\ cap.site = "periodic"
  /\ cap.at = "resumed"
  /\ cap.k < ScanLen
  /\ \E appears \in BOOLEAN :
       cap' = [cap EXCEPT
                 !.k = cap.k + 1,
                 !.present = cap.present \/ appears,
                 !.prompted = FALSE,
                 !.lastProbe = "none",
                 !.at = IF (cap.k + 1) % RecheckEvery = 0 THEN "probe" ELSE "resumed"]
  /\ capUnchanged

NextCaptcha == CapProbe \/ CapSolve \/ CapSignal \/ CapReprobe \/ CapScanStep

SpecCaptcha == InitCaptcha /\ [][NextCaptcha]_vars

\* ------------------------------------------------------------------------
\* SpecDiscovery: one root call of parse_public_folder, call by call, on
\* every share whose pages link to each other in any way (back to the root
\* and to ancestors included), with navigations that can fail
\* ------------------------------------------------------------------------
LinkElems ==
  { [name |-> "A", href |-> "uA"], [name |-> "B", href |-> "uB"],
    [name |-> "R", href |-> "u0"] }

\* the shares of at most MaxLinks links
LinkShares ==
  UNION { UNION { UNION {
    { [u \in Urls |-> CASE u = "u0" -> p0 [] u = "uA" -> pA [] OTHER -> pB] :
        p0 \in [1..n0 -> LinkElems], pA \in [1..nA -> LinkElems], pB \in [1..nB -> LinkElems] } :
      nB \in 0..(MaxLinks - n0 - nA) } : nA \in 0..(MaxLinks - n0) } : n0 \in 0..MaxLinks }

InitDiscovery ==
  /\ manifest = NoFile
  /\ InitProc
  /\ mop = [kind |-> "init", arg |-> << >>]
  /\ readResult = << >>
  /\ wr = NoWrite
  /\ remote \in LinkShares
  /\ all_folders = << >>
  /\ flaky = FALSE
  /\ loc_name = ""
  /\ loc_href = FALSE
  /\ raw = NoRaw
  /\ sanitized = << >>
  /\ config = ValidConfig
  /\ cap = NoCap
  /\ disc = NoDisc
  /\ up = NoUp
  /\ disk = NoDisk

discUnchanged ==
  UNCHANGED << manifest, cache, pc, args, runs, exitCode, elemIdx, file_idx,
               processed_files, items, video_files, idx, counters, h, prev, mop,
               readResult, wr, remote, flaky, browserVars, scanLocals, raw, sanitized,
               config, cap, up, disk >>

\* the locals of one call of parse_public_folder
Frame(public_url, base_path, is_root_call) ==
  [url |-> public_url, path |-> base_path, is_root_call |-> is_root_call,
   phase |-> "navigate", level |-> << >>, k |-> 0, all_folders |-> << >>]

Top == disc.stack[Len(disc.stack)]

Below == SubSeq(disc.stack, 1, Len(disc.stack) - 1)

Extend_Drop(all, sub) == all

\* all_folders.extend(subfolder_folders)
Extend(all, sub) == all \o sub

\* the caller's frame after the nested call returned `subfolder_folders`
Resumed(caller, subfolder_folders) ==
  [caller EXCEPT !.all_folders = Extend(caller.all_folders, subfolder_folders),
                 !.k = caller.k + 1]

\* __main__ calls parse_public_folder on the public URL with an empty
\* processed_folder_urls
DStart ==
  /\ disc.at = "idle"
  /\ disc' = [disc EXCEPT !.at = "running",
                          !.stack = << Frame(RootUrl, << "" >>, TRUE) >>,
                          !.entered = << RootUrl >>]
  /\ UNCHANGED << all_folders, folderIdx >>
  /\ discUnchanged

\* navigation and step 1 of the call on top: collect_all_folders on the
\* page, or an exception before the page is read.  The exception ends a
\* nested call with an empty list and the root call with ValueError.
DNavigate ==
  /\ disc.at = "running"
  /\ Top.phase = "navigate"
  /\ \E ok \in BOOLEAN :
       IF ok
       THEN LET current_level_folders ==
                  collect_all_folders(remote[Top.url], Top.path,
                                      disc.processed_folder_urls, << >>)
            IN disc' = [disc EXCEPT
                          !.stack = Append(Below, [Top EXCEPT !.phase = "step2",
                                                             !.level = current_level_folders,
                                                             !.k = 1,
                                                             !.all_folders = current_level_folders]),
                          !.processed_folder_urls = @ \cup UrlsOf(current_level_folders),
                          !.collected = @ \cup Range(current_level_folders)]
       ELSE IF Top.is_root_call
       THEN disc' = [disc EXCEPT !.at = "raised", !.stack = << >>,
                                 !.failed = @ \cup { Top.url }]
       ELSE disc' = [disc EXCEPT
                       !.stack = Append(SubSeq(Below, 1, Len(Below) - 1),
                                        Resumed(Below[Len(Below)], << >>)),
                       !.failed = @ \cup { Top.url }]
  /\ UNCHANGED << all_folders, folderIdx >>
  /\ discUnchanged

\* step 2: the nested call for the next folder of current_level_folders
DDescend ==
  /\ disc.at = "running"
  /\ Top.phase = "step2"
  /\ Top.k <= Len(Top.level)
  /\ Len(disc.stack) < MaxDepth
  /\ disc' = [disc EXCEPT
                !.stack = Append(@, Frame(Top.level[Top.k].url, Top.level[Top.k].path, FALSE)),
                !.entered = Append(@, Top.level[Top.k].url)]
  /\ UNCHANGED << all_folders, folderIdx >>
  /\ discUnchanged

\* the end of step 2: a nested call returns its all_folders to its caller,
\* the root call goes on to step 3
DReturn ==
  /\ disc.at = "running"
  /\ Top.phase = "step2"
  /\ Top.k > Len(Top.level)
  /\ IF Top.is_root_call
     THEN /\ disc' = [disc EXCEPT !.at = "step3", !.stack = << >>]
          /\ all_folders' = Top.all_folders
          /\ folderIdx' = 1
     ELSE /\ disc' = [disc EXCEPT
                        !.stack = Append(SubSeq(Below, 1, Len(Below) - 1),
                                         Resumed(Below[Len(Below)], Top.all_folders))]
          /\ UNCHANGED << all_folders, folderIdx >>
  /\ discUnchanged

\* step 3: parse_folder_contents on the next folder, the root after the
\* last one
DScan ==
  /\ disc.at = "step3"
  /\ folderIdx <= Len(ScanTargets)
  /\ disc' = [disc EXCEPT !.scanned = Append(@, ScanTargets[folderIdx]),
                          !.at = IF folderIdx = Len(ScanTargets) THEN "done" ELSE "step3"]
  /\ folderIdx' = folderIdx + 1
  /\ UNCHANGED all_folders
  /\ discUnchanged

NextDiscovery == DStart \/ DNavigate \/ DDescend \/ DReturn \/ DScan

SpecDiscovery == InitDiscovery /\ [][NextDiscovery]_vars

\* the calls are made one after the other by one thread: a call that can
\* take its next step takes it
SpecDiscoveryLive == SpecDiscovery /\ WF_vars(NextDiscovery)

\* ------------------------------------------------------------------------
\* SpecUpload: the upload step for one file, as written in __main__ and in
\* parse_folder_contents: the folder requests of create_folder_structure and
\* the call of upload_to_yandex_disk.  A path is the sequence of its parts,
\* relative to destination_path; a part is the sequence of its characters.
\* ------------------------------------------------------------------------
\* folder segments of a relative_path
MaxSegs == 2

\* characters of a folder name
MaxPartLen == 2

PartChars == { "a", "<", ".", "_", " " }

\* str.strip(): white space at both ends is cut off
StripSpace(str) == Strip(str, { " " })

\* the folder names collect_all_folders stores: stripped and not empty
FolderNames ==
  { n \in UNION { [1..k -> PartChars] : k \in 1..MaxPartLen } : StripSpace(n) = n }

RECURSIVE PathsOver(_, _)
\* the sequences of n names
PathsOver(names, n) ==
  IF n = 0 THEN { << >> }
  ELSE { Append(q, x) : q \in PathsOver(names, n - 1), x \in names }

\* the name of the file of every relative_path
FileName == << "v" >>

\* the answers of the request that creates a folder: created, already
\* exists, any other status code, and an exception of requests.put
Answers == { "201", "409", "other", "error" }

InitUpload ==
  /\ manifest = NoFile
  /\ InitProc
  /\ mop = [kind |-> "init", arg |-> << >>]
  /\ readResult = << >>
  /\ wr = NoWrite
  /\ remote = [u \in Urls |-> Elements(u)]
  /\ all_folders = << >>
  /\ flaky = FALSE
  /\ loc_name = ""
  /\ loc_href = FALSE
  /\ raw = NoRaw
  /\ sanitized = << >>
  /\ config = ValidConfig
  /\ cap = NoCap
  /\ disc = NoDisc
  /\ disk = NoDisk
  /\ \E n \in 0..MaxSegs : \E folders \in PathsOver(FolderNames, n) :
       up = [NoUp EXCEPT !.parts = Append(folders, FileName)]

upUnchanged ==
  UNCHANGED << manifest, procVars, mop, readResult, wr, remote, all_folders, flaky,
               browserVars, scanLocals, raw, sanitized, config, cap, disc, disk >>

\* path_parts = [part.strip()... for part in relative_path.split('/') if part.strip()]
path_parts(relative_path) ==
  SelectSeq([i \in 1..Len(relative_path) |-> StripSpace(relative_path[i])],
            LAMBDA part : part # << >>)

\* '/'.join(path_parts[:-1]), split again by create_folder_structure
folder_path(relative_path) ==
  SubSeq(path_parts(relative_path), 1, Len(path_parts(relative_path)) - 1)

\* full_path = f"{current_path}/{sanitized_part}"
full_path_Flat(current_path, sanitized_part) == << sanitized_part >>
full_path(current_path, sanitized_part) == Append(current_path, sanitized_part)

\* the folder that holds a path
ParentOf(path) == SubSeq(path, 1, Len(path) - 1)

\* full_destination = f"{destination_path}/{clean_relative_path}" is built;
\* create_folder_structure is called when path_parts has more than one part
UBuild ==
  /\ up.at = "idle"
  /\ up' = [up EXCEPT !.full_destination = up.parts,
                      !.folder_path = folder_path(up.parts),
                      !.i = 1,
                      !.at = IF Len(path_parts(up.parts)) > 1 THEN "create" ELSE "upload"]
  /\ upUnchanged

\* one iteration of `for part in path_parts` of create_folder_structure: a
\* part whose sanitized name is empty is passed over; for any other the
\* request is sent, and whatever its answer, current_path moves on
UCreate ==
  /\ up.at = "create"
  /\ LET parts == up.folder_path
         sanitized_part == sanitize_folder_name(parts[up.i])
         after == IF up.i = Len(parts) THEN "upload" ELSE "create"
     IN IF sanitized_part = << >>
        THEN up' = [up EXCEPT !.i = up.i + 1, !.at = after]
        ELSE \E answer \in Answers :
               up' = [up EXCEPT
                        !.i = up.i + 1,
                        !.at = after,
                        !.current_path = full_path(up.current_path, sanitized_part),
                        !.requests = Append(up.requests,
                                            full_path(up.current_path, sanitized_part)),
                        !.answers = up.answers \cup { answer }]
  /\ upUnchanged

\* upload_to_yandex_disk(local_path, full_destination, ...)
UUpload ==
  /\ up.at = "upload"
  /\ \E ok \in BOOLEAN : up' = [up EXCEPT !.at = IF ok THEN "uploaded" ELSE "failed"]
  /\ upUnchanged

NextUpload == UBuild \/ UCreate \/ UUpload

SpecUpload == InitUpload /\ [][NextUpload]_vars

\* ------------------------------------------------------------------------
\* SpecManifest: the manifest operations on their own, called with every
\* argument the program can pass them
\* ------------------------------------------------------------------------
\* the relative_path values parse_folder_contents builds on this share
DiscPaths ==
  UNION { { ScanTargets[t].path \o << n >> :
              n \in { x \in Range(Listing(ScanTargets[t].url)) : is_video(x) } } :
          t \in 1..Len(ScanTargets) }

\* the relative_path values the callers hand to the mark functions: as built
\* by parse_folder_contents, cleaned by the transfer loop, or read back from
\* the tree block
MarkArgs == DiscPaths \cup { Lstrip(p) : p \in DiscPaths } \cup { << Basename(p) >> : p \in DiscPaths }

RECURSIVE ListsUpTo(_)
\* the file lists without repetition of at most n discovered entries, in
\* every order
ListsUpTo(n) ==
  IF n = 0 THEN { << >> }
  ELSE LET shorter == ListsUpTo(n - 1)
       IN shorter \cup { Append(l, p) : l \in shorter, p \in DiscPaths } 

DiscoveredLists ==
  { l \in ListsUpTo(MaxListLen) :
      l # << >> /\ \A i, j \in 1..Len(l) : i # j => l[i] # l[j] }

MCreate ==
  \E l \in DiscoveredLists :
    /\ manifest' = create_structure_tree(l, FolderInfo, manifest)
    /\ mop' = [kind |-> "create", arg |-> l]
    /\ readResult' = << >>
    /\ UNCHANGED << procVars, wr, discVars, flaky, browserVars, scanLocals >>

MMarkPartial ==
  \E rel \in MarkArgs :
    /\ manifest' = mark_file_partially_downloaded(rel, manifest)
    /\ mop' = [kind |-> "markp", arg |-> rel]
    /\ readResult' = << >>
    /\ UNCHANGED << procVars, wr, discVars, flaky, browserVars, scanLocals >>

MMarkDownloaded ==
  \E rel \in MarkArgs :
    /\ manifest' = mark_file_downloaded(rel, manifest)
    /\ mop' = [kind |-> "markx", arg |-> rel]
    /\ readResult' = << >>
    /\ UNCHANGED << procVars, wr, discVars, flaky, browserVars, scanLocals >>

MRead ==
  /\ readResult' = read_files_from_tree(manifest, "")
  /\ mop' = [kind |-> "read", arg |-> << >>]
  /\ UNCHANGED << procVars, manifest, wr, discVars, flaky, browserVars, scanLocals >>

NextManifest == MCreate \/ MMarkPartial \/ MMarkDownloaded \/ MRead

SpecManifest == Init /\ [][NextManifest]_vars

\* ------------------------------------------------------------------------
\* SpecCorrupt: the manifest operations on a tree.md that is absent, that
\* cannot be decoded, or that holds text of another kind
\* ------------------------------------------------------------------------
Undecodable == [exists |-> TRUE, kind |-> "undecodable", tree |-> << >>, flat |-> << >>]

Junk == [exists |-> TRUE, kind |-> "junk", tree |-> << >>, flat |-> << >>]

\* the functions whose open() and f.read() stand inside `try: ... except
\* Exception`
ReadGuarded_ButCreate ==
  { "mark_file_partially_downloaded", "mark_file_downloaded", "read_files_from_tree",
    "is_file_downloaded" }
ReadGuarded ==
  { "create_structure_tree", "mark_file_partially_downloaded", "mark_file_downloaded",
    "read_files_from_tree", "is_file_downloaded" }

\* the call of fn on manifest m ends with an exception
Raises(fn, m) == ReadRaises(m) /\ fn \notin ReadGuarded

\* what the last call was, what it found on disk, and how it ended
Called(kind, arg, raised, result) ==
  [kind |-> kind, arg |-> arg, raised |-> raised, result |-> result,
   before |-> IF manifest.exists THEN manifest.kind ELSE "absent"]

InitCorrupt ==
  /\ manifest \in { NoFile, Undecodable, Junk }
  /\ InitProc
  /\ mop = [kind |-> "init", arg |-> << >>, raised |-> FALSE, result |-> " ",
            before |-> "absent"]
  /\ readResult = << >>
  /\ wr = NoWrite
  /\ remote = [u \in Urls |-> Elements(u)]
  /\ all_folders = AllFolders
  /\ flaky = FALSE
  /\ loc_name = ""
  /\ loc_href = FALSE
  /\ raw = NoRaw
  /\ sanitized = << >>
  /\ config = ValidConfig
  /\ cap = NoCap
  /\ disc = NoDisc
  /\ up = NoUp
  /\ disk = NoDisk

KCreate ==
  \E l \in DiscoveredLists :
    LET raised == Raises("create_structure_tree", manifest)
    IN /\ manifest' = IF raised THEN manifest
                      ELSE create_structure_tree(l, FolderInfo, manifest)
       /\ mop' = Called("create", l, raised, " ")
       /\ readResult' = << >>
       /\ UNCHANGED << procVars, wr, discVars, flaky, browserVars, scanLocals >>

KMarkPartial ==
  \E rel \in MarkArgs :
    LET raised == Raises("mark_file_partially_downloaded", manifest)
    IN /\ manifest' = IF raised THEN manifest
                      ELSE mark_file_partially_downloaded(rel, manifest)
       /\ mop' = Called("markp", rel, raised, " ")
       /\ readResult' = << >>
       /\ UNCHANGED << procVars, wr, discVars, flaky, browserVars, scanLocals >>

KMarkDownloaded ==
  \E rel \in MarkArgs :
    LET raised == Raises("mark_file_downloaded", manifest)
    IN /\ manifest' = IF raised THEN manifest
                      ELSE mark_file_downloaded(rel, manifest)
       /\ mop' = Called("markx", rel, raised, " ")
       /\ readResult' = << >>
       /\ UNCHANGED << procVars, wr, discVars, flaky, browserVars, scanLocals >>

KRead ==
  LET raised == Raises("read_files_from_tree", manifest)
  IN /\ readResult' = IF raised THEN << >> ELSE read_files_from_tree(manifest, "")
     /\ mop' = Called("read", << >>, raised, " ")
     /\ UNCHANGED << procVars, manifest, wr, discVars, flaky, browserVars, scanLocals >>

KIsDownloaded ==
  \E rel \in MarkArgs :
    LET raised == Raises("is_file_downloaded", manifest)
    IN /\ mop' = Called("status", rel, raised,
                        IF raised THEN " " ELSE is_file_downloaded(rel, manifest))
       /\ readResult' = << >>
       /\ UNCHANGED << procVars, manifest, wr, discVars, flaky, browserVars, scanLocals >>

NextCorrupt == KCreate \/ KMarkPartial \/ KMarkDownloaded \/ KRead \/ KIsDownloaded

SpecCorrupt == InitCorrupt /\ [][NextCorrupt]_vars

\* ------------------------------------------------------------------------
\* SpecClassify: a --parse-only run over a share whose root page lists
\* files only, from the scan of the page to the write of tree.md
\* ------------------------------------------------------------------------
\* elements of the root page
MaxPageLen == 3

\* file names as the page renders them: a video, a video whose extension is
\* written in capitals, and a text file
FileNames == { "a.mp4", "c.MP4", "n.txt" }

FilePages ==
  UNION { [1..n -> { [name |-> x, href |-> "none"] : x \in FileNames }] : n \in 0..MaxPageLen }

InitClassify ==
  /\ manifest = NoFile
  /\ cache = {}
  /\ session = "open"
  /\ browser = FALSE
  /\ pc = "scan"
  /\ args = [NoArgs EXCEPT !.parse_only = TRUE]
  /\ runs = 1
  /\ exitCode = -1
  /\ folderIdx = 1
  /\ elemIdx = 1
  /\ file_idx = 0
  /\ processed_files = {}
  /\ items = << >>
  /\ video_files = << >>
  /\ idx = 0
  /\ counters = [successful |-> FALSE, failed |-> FALSE]
  /\ h = NoHist
  /\ prev = [default |-> FALSE, okBoth |-> {}]
  /\ mop = [kind |-> "init", arg |-> << >>]
  /\ readResult = << >>
  /\ wr = NoWrite
  /\ \E page \in FilePages : remote = [u \in Urls |-> IF u = RootUrl THEN page ELSE << >>]
  /\ all_folders = << >>
  /\ flaky = FALSE
  /\ loc_name = ""
  /\ loc_href = FALSE
  /\ raw = NoRaw
  /\ sanitized = << >>
  /\ config = ValidConfig
  /\ cap = NoCap
  /\ disc = NoDisc
  /\ up = NoUp
  /\ disk = NoDisk

classUnchanged ==
  UNCHANGED << cache, args, runs, folderIdx, idx, counters, h, prev, mop, readResult, wr,
               discVars, flaky, browserVars, scanLocals >>

\* parse_folder_contents on the root page with download_immediately False:
\* one element; a name that is_video accepts and that was not seen before is
\* appended to items with relative_path f"{folder_path}/{name}"
ClassScan ==
  /\ pc = "scan"
  /\ elemIdx <= Len(remote[RootUrl])
  /\ LET name == remote[RootUrl][elemIdx].name
     IN IF ~is_video(name) \/ name \in processed_files \/ ~HrefResolves(name)
        THEN /\ processed_files' = IF is_video(name) THEN processed_files \cup { name }
                                   ELSE processed_files
             /\ UNCHANGED << items, file_idx >>
        ELSE /\ processed_files' = processed_files \cup { name }
             /\ items' = Append(items, [rel |-> << "", name >>, order |-> file_idx,
                                        url |-> TRUE])
             /\ file_idx' = file_idx + 1
  /\ elemIdx' = elemIdx + 1
  /\ UNCHANGED << manifest, pc, exitCode, video_files >>
  /\ classUnchanged

\* parse_public_folder returns; video_files = filter_video_files(items)
ClassFilter ==
  /\ pc = "scan"
  /\ elemIdx > Len(remote[RootUrl])
  /\ video_files' = filter_video_files(items)
  /\ pc' = "post"
  /\ UNCHANGED << manifest, exitCode, elemIdx, file_idx, processed_files, items >>
  /\ classUnchanged

\* the common section of __main__: tree.md is written from video_files when
\* there is one, and the parse-only run ends
ClassWrite ==
  /\ pc = "post"
  /\ LET vf == SortByOrder(video_files, 0)
         paths == [i \in 1..Len(vf) |-> vf[i].rel]
     IN manifest' = IF vf # << >> THEN create_structure_tree(paths, << >>, manifest)
                    ELSE manifest
  /\ pc' = "idle"
  /\ exitCode' = EXIT_SUCCESS
  /\ UNCHANGED << elemIdx, file_idx, processed_files, items, video_files >>
  /\ classUnchanged

NextClassify == ClassScan \/ ClassFilter \/ ClassWrite

SpecClassify == InitClassify /\ [][NextClassify]_vars

\* ------------------------------------------------------------------------
\* SpecStage: the transfer of one entry of tree.md over several runs of
\* the transfer loop of __main__ (--use-tree, with and without
\* --upload-only), with the size of the remote file and the content
\* of its local file: "absent"; "complete" and "complete_small" (all bytes
\* of a download that returned True, above and up to 1 MB); "part_large"
\* and "part_small" (the first bytes of a download that did not end)
\* ------------------------------------------------------------------------
StageRel == << "A", "a.mp4" >>

StageModes == { [NoArgs EXCEPT !.use_tree = TRUE],
                [NoArgs EXCEPT !.use_tree = TRUE, !.upload_only = TRUE] }

\* os.path.exists(local_path) and os.path.getsize(local_path) > 1024 * 1024
ExistsAndLarge(file) == file \in { "complete", "part_large" }

InitStage ==
  /\ manifest = create_structure_tree(<< StageRel >>, << >>, NoFile)
  /\ InitProc
  /\ mop = [kind |-> "init", arg |-> << >>]
  /\ readResult = << >>
  /\ wr = NoWrite
  /\ remote = [u \in Urls |-> Elements(u)]
  /\ all_folders = << >>
  /\ flaky = FALSE
  /\ loc_name = ""
  /\ loc_href = FALSE
  /\ raw = NoRaw
  /\ sanitized = << >>
  /\ config = ValidConfig
  /\ cap = NoCap
  /\ disc = NoDisc
  /\ up = NoUp
  /\ \E large \in BOOLEAN : disk = [NoDisk EXCEPT !.large = large]

stageUnchanged ==
  UNCHANGED << cache, exitCode, folderIdx, elemIdx, file_idx, processed_files, items,
               video_files, idx, counters, h, prev, mop, readResult, wr, remote,
               all_folders, flaky, browserVars, scanLocals, raw, sanitized, config, cap,
               disc, up >>

\* a run starts and reaches the entry in the transfer loop
SgStart ==
  /\ pc = "idle"
  /\ runs < MaxRuns
  /\ \E a \in StageModes : args' = a
  /\ runs' = runs + 1
  /\ pc' = "turn"
  /\ UNCHANGED << manifest, disk >>
  /\ stageUnchanged

\* the head of the iteration: a complete entry is passed over; --upload-only
\* uploads a local file that exists and is large and passes over any other;
\* else the download is called unless the entry is partial, and called
\* again for a partial entry whose local file does not exist
SgTurn ==
  /\ pc = "turn"
  /\ LET st == is_file_downloaded(StageRel, manifest)
     IN pc' = IF st = "x" THEN "idle"
              ELSE IF args.upload_only
                   THEN (IF ExistsAndLarge(disk.file) THEN "lp_publish" ELSE "idle")
              ELSE IF st # "p" \/ disk.file = "absent" THEN "lp_stage"
              ELSE "lp_publish"
  /\ UNCHANGED << manifest, args, runs, disk >>
  /\ stageUnchanged

\* download_video: a local file that exists and is large counts as
\* downloaded; else the bytes are written into local_path itself.  The
\* download ends well, or it fails or is interrupted and leaves what the
\* file held before open() or the bytes written so far.
\* The entry is marked partial after a download, and left as it is after
\* the download of a partial entry whose file was missing.
SgStage ==
  /\ pc = "lp_stage"
  /\ LET done == IF is_file_downloaded(StageRel, manifest) = "p"
                 THEN "lp_publish" ELSE "lp_markp"
     IN IF ExistsAndLarge(disk.file)
        THEN /\ pc' = done
             /\ UNCHANGED disk
        ELSE
          \/ /\ disk' = [disk EXCEPT !.file = IF disk.large THEN "complete"
                                               ELSE "complete_small"]
             /\ pc' = done
          \/ /\ \E left \in { disk.file, "part_small" }
                            \cup (IF disk.large THEN { "part_large" } ELSE {}) :
                  disk' = [disk EXCEPT !.file = left]
             /\ pc' = "idle"
  /\ UNCHANGED << manifest, args, runs >>
  /\ stageUnchanged

SgMarkP ==
  /\ pc = "lp_markp"
  /\ manifest' = mark_file_partially_downloaded(StageRel, manifest)
  /\ pc' = "lp_publish"
  /\ UNCHANGED << args, runs, disk >>
  /\ stageUnchanged

\* upload_to_yandex_disk(local_path, ...): the local file is read and sent;
\* the call returns or raises
SgPublish ==
  /\ pc = "lp_publish"
  /\ disk' = [disk EXCEPT !.handed = @ \cup { disk.file }]
  /\ \E raises \in BOOLEAN : pc' = IF raises THEN "idle" ELSE "lp_markx"
  /\ UNCHANGED << manifest, args, runs >>
  /\ stageUnchanged

SgMarkX ==
  /\ pc = "lp_markx"
  /\ manifest' = mark_file_downloaded(StageRel, manifest)
  /\ pc' = "lp_remove"
  /\ UNCHANGED << args, runs, disk >>
  /\ stageUnchanged

\* os.remove(local_path); the loop ends with its only entry
SgRemove ==
  /\ pc = "lp_remove"
  /\ disk' = [disk EXCEPT !.file = "absent"]
  /\ pc' = "idle"
  /\ UNCHANGED << manifest, args, runs >>
  /\ stageUnchanged

\* KeyboardInterrupt outside download_video
SgInterrupt ==
  /\ pc \in { "turn", "lp_markp", "lp_publish", "lp_markx", "lp_remove" }
  /\ pc' = "idle"
  /\ UNCHANGED << manifest, args, runs, disk >>
  /\ stageUnchanged

NextStage ==
  SgStart \/ SgTurn \/ SgStage \/ SgMarkP \/ SgPublish \/ SgMarkX \/ SgRemove \/ SgInterrupt

SpecStage == InitStage /\ [][NextStage]_vars

\* ------------------------------------------------------------------------
\* SpecWrite: one write of tree.md, f.write call by f.write call, with the
\* process interrupted at any point of it
\* ------------------------------------------------------------------------
\* number of f.write calls that put document m on disk: one per line for
\* create_structure_tree, a single one for the mark functions
WriteCalls(m, unit) == IF unit = "line" THEN Len(m.tree) + Len(m.flat) ELSE 1

\* tree.md after open(tree_file_path, 'w') and the first k f.write calls of
\* the write of m; the with block flushes what was written when it is left
Truncated(m, k, unit) ==
  IF unit = "whole"
  THEN IF k = 0 THEN [exists |-> TRUE, kind |-> "document", tree |-> << >>, flat |-> << >>]
       ELSE m
  ELSE [exists |-> TRUE, kind |-> "document",
        tree   |-> SubSeq(m.tree, 1, IF k < Len(m.tree) THEN k ELSE Len(m.tree)),
        flat   |-> SubSeq(m.flat, 1, IF k < Len(m.tree) THEN 0 ELSE k - Len(m.tree))]

\* open(tree_file_path, 'w'): the file is emptied before anything is written
WOpen(target, unit) ==
  /\ ~wr.active
  /\ wr' = [active |-> TRUE, before |-> manifest, after |-> target, pos |-> 0,
            unit |-> unit]
  /\ manifest' = Truncated(target, 0, unit)
  /\ UNCHANGED << procVars, mop, readResult, discVars, flaky, browserVars, scanLocals >>

WCreate == \E l \in DiscoveredLists :
             WOpen(create_structure_tree(l, FolderInfo, manifest), "line")

\* the mark functions write only if new_content != content
WMarkPartial ==
  \E rel \in MarkArgs :
    /\ mark_file_partially_downloaded(rel, manifest) # manifest
    /\ WOpen(mark_file_partially_downloaded(rel, manifest), "whole")

WMarkDownloaded ==
  \E rel \in MarkArgs :
    /\ mark_file_downloaded(rel, manifest) # manifest
    /\ WOpen(mark_file_downloaded(rel, manifest), "whole")

\* one f.write call
WWrite ==
  /\ wr.active
  /\ wr.pos < WriteCalls(wr.after, wr.unit)
  /\ wr' = [wr EXCEPT !.pos = wr.pos + 1]
  /\ manifest' = Truncated(wr.after, wr.pos + 1, wr.unit)
  /\ UNCHANGED << procVars, mop, readResult, discVars, flaky, browserVars, scanLocals >>

\* the with block is left after the last f.write call
WClose ==
  /\ wr.active
  /\ wr.pos = WriteCalls(wr.after, wr.unit)
  /\ wr' = [wr EXCEPT !.active = FALSE]
  /\ UNCHANGED << procVars, manifest, mop, readResult, discVars, flaky, browserVars, scanLocals >>

\* KeyboardInterrupt (or the end of the process) inside the with block
WInterrupt ==
  /\ wr.active
  /\ wr' = [wr EXCEPT !.active = FALSE]
  /\ UNCHANGED << procVars, manifest, mop, readResult, discVars, flaky, browserVars, scanLocals >>

NextWrite == WCreate \/ WMarkPartial \/ WMarkDownloaded \/ WWrite \/ WClose \/ WInterrupt

SpecWrite == Init /\ [][NextWrite]_vars

\* ------------------------------------------------------------------------
\* Ground truth used by the properties
\* ------------------------------------------------------------------------
RECURSIVE TruePathsFrom(_, _, _)
\* the relativePath each line of the tree block stands for, by its nesting
TruePathsFrom(tree, i, current_path) ==
  IF i > Len(tree) THEN << >>
  ELSE LET cp == SubSeq(current_path, 1, tree[i].depth) \o << tree[i].name >>
       IN << cp >> \o TruePathsFrom(tree, i + 1, cp)

TruePaths(m) == TruePathsFrom(m.tree, 1, << >>)

\* the flat marker that says the same as a marker of the tree block
FlatOfTreeMark(mk) == IF mk = "v" THEN "x" ELSE mk

TreeMarkRank(mk) == StatusRank(FlatOfTreeMark(mk))

\* ------------------------------------------------------------------------
\* Properties
\* ------------------------------------------------------------------------
\* C1: across two consecutive runs of the default mode, no file whose stage
\* and publish both succeeded in the first run is staged or published again
\* in the second run.
C1_NoRetransfer ==
  (IsDefaultMode(args) /\ prev.default)
    => prev.okBoth \cap (h.staged \cup h.published) = {}

\* C2: an entry whose manifest status is complete when its turn comes is
\* handed neither to download_video nor to upload_to_yandex_disk.
C2_CompleteSkipped ==
  pc \in { "im_stage", "im_publish", "lp_stage", "lp_restage", "lp_publish" }
    => h.turnStatus # "x"

\* C3: after a failed stage no stage or publish call is made for another
\* entry in the same run, and the run ends with the runtime-failure code.
C3_StageFailureHalts ==
  /\ ~h.afterStageFail
  /\ (pc = "idle" /\ h.stageFail # {}) => exitCode = EXIT_ERROR

\* C4: after a failed publish the file ends the run as partial with its
\* local copy in place, no other entry is processed, and the exit code is 2.
C4_PublishFailureHalts ==
  (pc = "idle" /\ h.pubFail # {})
    => /\ \A k \in h.pubFail : StatusOf(manifest, k) = "p" /\ LocalPath(k) \in cache
       /\ ~h.afterPubFail
       /\ exitCode = EXIT_ERROR

\* C5: when the publish collaborator is about to be invoked for a file that
\* the manifest listed as not-started and that was staged successfully in
\* this turn, the manifest shows the file as partial.
C5_PartialBeforePublish ==
  /\ (pc = "im_publish" /\ h.freshStage) => StatusOf(manifest, Lstrip(CurRel)) = "p"
  /\ (pc = "lp_publish" /\ h.freshStage) => StatusOf(manifest, LoopRel) = "p"

\* C6: a call of mark_file_partially_downloaded or mark_file_downloaded moves
\* no status backward, in the flat section and in the tree block, and leaves
\* the manifest unchanged when the status it sets already holds.
C6_MarksNeverRegress ==
  [][ (mop'.kind \in { "markp", "markx" })
        => /\ Keys(manifest') = Keys(manifest)
           /\ \A k \in Keys(manifest) :
                StatusRank(StatusOf(manifest', k)) >= StatusRank(StatusOf(manifest, k))
           /\ Len(manifest'.tree) = Len(manifest.tree)
           /\ \A i \in 1..Len(manifest.tree) :
                TreeMarkRank(manifest'.tree[i].mark) >= TreeMarkRank(manifest.tree[i].mark)
           /\ (mop'.kind = "markp" /\ StatusOf(manifest, mop'.arg) = "p")
                => manifest' = manifest
           /\ (mop'.kind = "markx" /\ StatusOf(manifest, mop'.arg) = "x")
                => manifest' = manifest ]_vars

\* C6 witness: mark_file_partially_downloaded was called for a path that is
\* complete, and the path is still complete
C6_Witness ==
  /\ mop.kind = "markp"
  /\ StatusOf(manifest, mop.arg) = "x"
  /\ \E k \in Keys(manifest) : StatusOf(manifest, k) = "p"

\* C7: create_structure_tree over a newly discovered list keeps the partial
\* or complete marker of every relativePath that was already listed, in the
\* flat section and in the tree block, whatever the order of the list; the
\* keys written are exactly the cleaned paths of the list.
C7_CreateKeepsStatus ==
  [][ (mop'.kind = "create")
        => /\ Keys(manifest') = { Lstrip(p) : p \in Range(mop'.arg) }
           /\ \A p \in Range(mop'.arg) :
                StatusOf(manifest, Lstrip(p)) \in { "p", "x" }
                  => /\ StatusOf(manifest', Lstrip(p)) = StatusOf(manifest, Lstrip(p))
                     /\ \E i \in 1..Len(manifest'.tree) :
                          /\ TruePaths(manifest')[i] = p
                          /\ FlatOfTreeMark(manifest'.tree[i].mark)
                               = StatusOf(manifest, Lstrip(p)) ]_vars

\* C7 witness: a list that is not in sorted order was written over a
\* manifest, and the result holds a complete and a partial entry
C7_Witness ==
  /\ mop.kind = "create"
  /\ mop.arg # SortPaths(mop.arg)
  /\ \E k \in Keys(manifest) : StatusOf(manifest, k) = "x"
  /\ \E k \in Keys(manifest) : StatusOf(manifest, k) = "p"

\* C8: no step of any run removes a relativePath from the manifest or moves
\* its status backward.
C8_NeverReduced ==
  [][ \A k \in Keys(manifest) :
        /\ k \in Keys(manifest')
        /\ StatusRank(StatusOf(manifest', k)) >= StatusRank(StatusOf(manifest, k)) ]_vars

\* C9: the marker of each file in the tree block equals the marker of the
\* same relativePath in the flat section.
C9_ViewsAgree ==
  \A i \in 1..Len(manifest.tree) :
    ~manifest.tree[i].folder
      => FlatOfTreeMark(manifest.tree[i].mark)
           = StatusOf(manifest, Lstrip(TruePaths(manifest)[i]))

\* C10: read_files_from_tree without a filter returns exactly the written
\* relativePaths, each once; is_file_downloaded reports the written status;
\* the flat section alone and the tree block alone give the same result.
C10_RoundTrip ==
  (mop.kind = "read")
    => /\ Range(readResult) = Keys(manifest)
       /\ \A i, j \in 1..Len(readResult) : i # j => readResult[i] # readResult[j]
       /\ \A k \in Keys(manifest) : is_file_downloaded(k, manifest) = StatusOf(manifest, k)
       /\ Range(ReadFlat(manifest, "")) = Range(ReadTree(manifest, ""))


\* C11: every write of tree.md is all-or-nothing: once a write has ended,
\* completed or interrupted, the file holds the whole document of before the
\* write or the whole document the write was to produce.
C11_WriteAllOrNothing ==
  ~wr.active => manifest \in { wr.before, wr.after }

\* the place of the folder of an entry in the order of discovery
FolderRank(rel) ==
  CHOOSE t \in 1..Len(ScanTargets) : ScanTargets[t].path = SubSeq(rel, 1, Len(rel) - 1)

\* C12: the transfer loop visits the entries folder by folder in the order
\* the folders were discovered, and by ascending order index inside a
\* folder: no entry of a later folder comes before an entry of an earlier
\* one.
C12_LoopOrder ==
  pc \in { "turn", "lp_stage", "lp_restage", "lp_markp", "lp_publish", "lp_markx",
           "lp_remove" }
    => \A i, j \in 1..Len(video_files) :
         i < j => \/ FolderRank(video_files[i].rel) < FolderRank(video_files[j].rel)
                  \/ /\ FolderRank(video_files[i].rel) = FolderRank(video_files[j].rel)
                     /\ video_files[i].order < video_files[j].order

\* C13: an entry that the manifest shows partial and whose local copy is
\* there (above 1 MiB) is not transferred again: the loop and the immediate
\* path go to the publish call, at once or through a download_video call
\* that returns without a transfer and cannot fail.
C13_PartialLocalNoTransfer ==
  [][ /\ ( /\ pc = "turn" /\ idx <= Len(video_files)
           /\ StatusOf(manifest, LoopRel) = "p" /\ LocalPath(LoopRel) \in cache )
        => pc' \in { "lp_publish", "idle" }
      /\ ( /\ pc = "scan" /\ elemIdx <= Len(Listing(CurTarget.url))
           /\ is_video(CurName) /\ CurName \notin processed_files
           /\ download_immediately
           /\ StatusOf(manifest, Lstrip(CurRel)) = "p" /\ LocalPath(CurRel) \in cache )
        => pc' \in { "im_publish", "im_stage", "idle" }
      /\ ( /\ pc = "im_stage"
           /\ StatusOf(manifest, Lstrip(CurRel)) = "p" /\ LocalPath(CurRel) \in cache )
        => /\ pc' \in { "im_markp", "idle" }
           /\ cache' = cache
           /\ h'.stageFail = h.stageFail
      /\ ( /\ pc = "im_markp"
           /\ StatusOf(manifest, Lstrip(CurRel)) = "p" /\ LocalPath(CurRel) \in cache )
        => pc' \in { "im_publish", "idle" }
      /\ ( /\ pc \in { "lp_stage", "lp_restage" } /\ StatusOf(manifest, LoopRel) = "p" )
        => LocalPath(LoopRel) \notin cache ]_vars

\* C13 witness: the loop is at the publish call of a partial entry with a
\* local copy that this run has not staged, and that the immediate path of
\* the same run had already handed to the publish call without staging it
C13_Witness ==
  /\ pc = "lp_publish"
  /\ StatusOf(manifest, LoopRel) = "p"
  /\ LocalPath(LoopRel) \in cache
  /\ LoopRel \notin h.staged
  /\ LoopRel \in h.published

\* C14: the folder list one discovery pass returns holds no two folders
\* with the same path, whatever the pages render.
C14_FolderPathsUnique ==
  \A i, j \in 1..Len(all_folders) :
    i # j => all_folders[i].path # all_folders[j].path

\* C14 witness: a pass has returned folders on two levels from a share
\* whose root page renders one folder name under two references and whose
\* page of folder A renders the link back to the root twice
C14_Witness ==
  /\ pc = "step3"
  /\ \E i, j \in 1..Len(remote["u0"]) :
       /\ remote["u0"][i].href = "uA" /\ remote["u0"][j].href = "uB"
       /\ CleanName(remote["u0"][i].name) = CleanName(remote["u0"][j].name)
  /\ \E i, j \in 1..Len(remote["uA"]) :
       i # j /\ remote["uA"][i].href = "u0" /\ remote["uA"][j].href = "u0"
  /\ \E i, j \in 1..Len(all_folders) :
       Len(all_folders[i].path) = 1 /\ Len(all_folders[j].path) = 2
\* C15: one discovery pass never emits two file entries with the same
\* relativePath, the entries added by the except branch included.
C15_EntriesUnique ==
  \A i, j \in 1..Len(items) : i # j => items[i].rel # items[j].rel

\* the characters a sanitized name must not hold: the unsafe set of the
\* file systems and the path separator
UnsafeChars == { "<", ">", ":", "\"", "|", "?", "*", "/" }

\* C16: no result of sanitize_filename or sanitize_folder_name holds a
\* filesystem-unsafe character or a path separator.
C16_NoUnsafeChar ==
  \A k \in 1..Len(sanitized) : \A i \in 1..Len(sanitized[k]) :
    sanitized[k][i] \notin UnsafeChars

\* C17: sanitize_filename and sanitize_folder_name are idempotent: the
\* second application returns what the first returned.
C17_Idempotent ==
  Len(sanitized) = 2 => sanitized[2] = sanitized[1]

\* a value the run needs is missing or invalid
ConfigError(c) ==
  \/ ~c.upload_only /\ c.url # "valid"
  \/ ~c.parse_only /\ c.destination # "valid"
  \/ ~c.parse_only /\ c.token # "valid"

\* C18: a process started with a configuration error ends with exit code 1
\* and never gets to the browser.
C18_ConfigErrorExit1 ==
  (runs = 1 /\ ConfigError(config)) => (pc = "idle" /\ exitCode = EXIT_INVALID_ARGS)

\* C19: with a single-folder filter, no file whose relativePath lies outside
\* the chosen folder is staged or published during the run.
C19_FilterRespected ==
  args.folder # "" =>
    \A key \in h.staged \cup h.published : StartsWithFolder(Lstrip(key), args.folder)

\* C20: in a --dry-run run neither download_video nor upload_to_yandex_disk
\* is invoked, and no step of the run raises the marker of a manifest entry.
C20_DryRunOnlyParses ==
  [][ args.dry_run =>
        /\ h'.staged = {} /\ h'.published = {}
        /\ (args' = args /\ runs' = runs) =>
             \A key \in Keys(manifest) :
               StatusRank(StatusOf(manifest', key)) <= StatusRank(StatusOf(manifest, key)) ]_vars

\* C21: in an --upload-only run download_video is never invoked, and a file
\* is handed to upload_to_yandex_disk only when it is in the local cache.
C21_UploadOnlyNeverStages ==
  [][ args'.upload_only =>
        /\ h'.staged = {}
        /\ \A key \in h'.published \ h.published : LocalPath(key) \in cache ]_vars

C23_SessionClosedOnExit ==
  [][ (session = "open" /\ pc # "idle" /\ pc' = "idle") => session' = "closed" ]_vars

\* C25: while a run that parses the share is still enumerating files, no
\* file has been handed to download_video or upload_to_yandex_disk, and a
\* file is handed to download_video only when tree.md lists it.
C25_DiscoveryBeforeTransfer ==
  ~args.use_tree =>
    /\ pc \in { "scan", "im_stage", "im_markp", "im_publish", "im_markx", "im_remove" }
         => (h.staged = {} /\ h.published = {})
    /\ \A key \in h.staged : StatusOf(manifest, key) # "absent"

\* C26: when the transfer loop decides to stage or publish an entry, every
\* entry before it in processing order is marked complete.
C26_NoSkipAhead ==
  [][ (pc = "turn" /\ pc' \in { "lp_stage", "lp_restage", "lp_publish" }) =>
        \A i \in 1..(idx - 1) : StatusOf(manifest, Lstrip(video_files[i].rel)) = "x" ]_vars

\* C24: a caller that resumes after the operator was prompted resumes after
\* a query of the selectors that found no challenge.
C24_ResumeAfterClearProbe ==
  (cap.at = "resumed" /\ cap.prompted) => cap.lastProbe = "clear"

\* C27: once parse_folder_contents has been called for a folder, no further
\* call of parse_public_folder is made and the folder list stays as it is;
\* the calls of parse_folder_contents follow the folder list in its order,
\* and the root comes after the last folder.
C27_DiscoveryThenEnumeration ==
  [][ /\ disc.scanned # << >> =>
           (disc'.entered = disc.entered /\ all_folders' = all_folders /\ disc.stack = << >>)
      /\ \A i \in 1..Len(disc'.scanned) :
           IF i <= Len(all_folders')
           THEN disc'.scanned[i] = [url |-> all_folders'[i].url, path |-> all_folders'[i].path]
           ELSE disc'.scanned[i] = [url |-> RootUrl, path |-> << "" >>]
      /\ disc'.at = "done" => Len(disc'.scanned) = Len(all_folders') + 1 ]_vars

C27_Witness ==
  /\ disc.at = "done"
  /\ Len(all_folders) >= 2
  /\ \E i \in 1..Len(all_folders) : Len(all_folders[i].path) = 2
  /\ disc.scanned[Len(disc.scanned)].url = RootUrl

C29_EnteredOnce ==
  \A i, j \in 1..Len(disc.entered) : i # j => disc.entered[i] # disc.entered[j]

\* C30: the root call of parse_public_folder comes to its end, by its
\* return or by its exception.
C30_DiscoveryTerminates == <>(disc.at \in { "done", "raised" })

C30_Witness ==
  /\ disc.at = "done"
  /\ \E i \in 1..Len(remote["uA"]) : remote["uA"][i].href = "u0"
  /\ \E i, j \in 1..Len(remote["u0"]) : i # j /\ remote["u0"][i].href = "uA"
                                              /\ remote["u0"][j].href = "uA"
  /\ Len(disc.entered) >= 2

\* C31: a query of the selectors at the head of a handler that finds a
\* challenge is followed by the prompt, where the handler waits for the
\* operator, and by nothing else.
C31_PromptAfterDetection ==
  [][ (cap.at = "probe" /\ cap'.at # "probe" /\ cap'.lastProbe = "found") =>
        cap'.at = "prompt" ]_vars

\* the folders create_folder_structure has to ask for, in the order of
\* increasing depth: every prefix of the sanitized folder path
C32_ExpectedRequests ==
  LET sp == SelectSeq([i \in 1..Len(up.parts) - 1 |-> sanitize_folder_name(up.parts[i])],
                      LAMBDA part : part # << >>)
  IN [k \in 1..Len(sp) |-> SubSeq(sp, 1, k)]

C38_ParentIsEnsuredFolder ==
  (up.at = "uploaded" /\ Len(up.parts) > 1) => ParentOf(up.full_destination) = up.current_path

\* C33: a local copy that a run removes after the upload belongs to a
\* relativePath that tree.md shows as complete.
C33_DeletedOnlyWhenComplete ==
  [][ (pc = "im_remove" \/ pc = "lp_remove") =>
        \A local_path \in cache \ cache' :
          \E key \in Keys(manifest') :
            LocalPath(key) = local_path /\ StatusOf(manifest', key) = "x" ]_vars

\* C34: on a tree.md that is absent, undecodable or without any line of
\* the document, no manifest function ends with an exception:
\* read_files_from_tree returns the empty list, is_file_downloaded answers
\* (False, False), create_structure_tree writes the document it writes when
\* no tree.md exists, and the mark functions leave the file as it is.
C34_CorruptManifestAsAbsent ==
  [][ (~manifest.exists \/ manifest.kind # "document") =>
        /\ ~mop'.raised
        /\ mop'.kind = "read" => readResult' = << >>
        /\ mop'.kind = "status" => mop'.result = " "
        /\ mop'.kind = "create" =>
             manifest' = create_structure_tree(mop'.arg, FolderInfo, NoFile)
        /\ mop'.kind \in { "markp", "markx" } => manifest' = manifest ]_vars

C34_Witness ==
  /\ mop.kind = "create"
  /\ mop.before = "undecodable"
  /\ ~mop.raised
  /\ manifest.kind = "document"
  /\ Keys(manifest) # {}

RECURSIVE TreePath(_, _)
\* the path of the node that tree line i stands for: its name below the
\* nearest folder line above it that is one level higher
TreePath(tree, i) ==
  IF tree[i].depth = 0 THEN << tree[i].name >>
  ELSE LET above == { j \in 1..(i - 1) : tree[j].folder /\ tree[j].depth = tree[i].depth - 1 }
           parent == CHOOSE j \in above : \A k \in above : k <= j
       IN Append(TreePath(tree, parent), tree[i].name)

\* C35: a call of mark_file_partially_downloaded or mark_file_downloaded
\* leaves every line of tree.md that belongs to another relativePath as it
\* was, in the flat section and in the tree block, and adds or drops no line.
C35_MarkFrame ==
  [][ mop'.kind \in { "markp", "markx" } =>
        /\ Len(manifest'.flat) = Len(manifest.flat)
        /\ Len(manifest'.tree) = Len(manifest.tree)
        /\ \A i \in 1..Len(manifest.flat) :
             manifest.flat[i].path # mop'.arg => manifest'.flat[i] = manifest.flat[i]
        /\ \A i \in 1..Len(manifest.tree) :
             TreePath(manifest.tree, i) # mop'.arg => manifest'.tree[i] = manifest.tree[i] ]_vars

C35_Witness ==
  /\ mop.kind = "markx"
  /\ mop.arg = << "A", "a.mp4" >>
  /\ StatusOf(manifest, << "A", "a.mp4" >>) = "x"
  /\ StatusOf(manifest, << "B", "a.mp4" >>) = " "

\* the references the elements of the page of u point to
C36_LinksOf(pages, u) == { pages[u][i].href : i \in 1..Len(pages[u]) } \ { "none" }

RECURSIVE C36_ReachFrom(_, _)
\* the references that can be reached from those of `seen` by following links
C36_ReachFrom(pages, seen) ==
  LET more == seen \cup UNION { C36_LinksOf(pages, u) : u \in seen }
  IN IF more = seen THEN seen ELSE C36_ReachFrom(pages, more)

\* C36: when parse_public_folder has collected the folders, every reference
\* that can be reached from the root by following folder links is the
\* reference of a folder of all_folders.
C36_DiscoveryComplete ==
  pc = "step3" =>
    \A u \in C36_ReachFrom(remote, { RootUrl }) \ { RootUrl } :
      \E i \in 1..Len(all_folders) : all_folders[i].url = u

\* C37: every entry that parse_folder_contents emitted as a video during a
\* run is listed in the tree.md that the run writes.
C37_EmittedVideosListed ==
  (pc = "idle" /\ runs = 1 /\ args.parse_only /\ exitCode = EXIT_SUCCESS) =>
     \A i \in 1..Len(items) : Lstrip(items[i].rel) \in Keys(manifest)

\* C39: the local file that upload_to_yandex_disk is called with holds all
\* the bytes of a download that ended well, never the first bytes of a
\* download that was cut short.
C39_OnlyCompleteFilesUploaded == disk.handed \subseteq { "complete", "complete_small" }

====
